---- MODULE Spec2Model ----
(***************************************************************************)
(* Model of the web-scanner edge function of Robolabwebscanner:           *)
(* the intake handler (Deno.serve), processScan with its per-domain rate   *)
(* limit gate, performScan with the six analyzers, the aggregator          *)
(* (extractTopIssues, calculateOverallScore), the report document and the  *)
(* final write; and of the generate-pdf function, which stores a report    *)
(* for a scan on request.                                                  *)
(*                                                                         *)
(* Every await of processScan is a step boundary: one action is the        *)
(* completion of the awaited call together with the synchronous code that  *)
(* runs up to the next await.  Time is counted in minutes.                 *)
(***************************************************************************)
EXTENDS Integers, Sequences, FiniteSets, TLC

\* ------------------------------------------------------------------ bounds
NTasks == 2          \* processScan invocations that can be in flight together
NScans == 2          \* rows of scan_results
MaxRuns == 2         \* intake calls in a behaviour of Spec
MaxRunsSeq == 7      \* intake calls in a behaviour of SpecSeq
TickStep == 30       \* minutes the clock advances in one Tick
MaxTime == 60        \* the clock stops advancing once it has reached this
MaxAggregations == 2
\* SpecElements: the pages have up to MaxButtons buttons and up to MaxPaths
\* paths in their request calls
MaxButtons == 6
MaxPaths == 3 \* applications of the aggregation to one result set in SpecScore

\* ------------------------------------------------------- program constants
WindowMinutes == 60      \* 60 * 60 * 1000 ms
RateLimitMax == 5        \* scan_count >= 5
ChecksPerformed == 7     \* checks_performed: 7
PageHeight == 842        \* A4, in points
HeaderDrop == 100        \* y = pageHeight - 100
CaptionDrop == 25        \* y -= 25 under the caption of the Core Web Vitals page
VitalStep == 40          \* y -= 40 after each metric
VitalFloor == 80         \* if (y < 80) break

TaskIds == 1..NTasks
ScanIds == 1..NScans

Null == "null"

\* ---------------------------------------------------------------- targets
UrlUp == "https://up.example/"
UrlBad == "not a url"
Urls == {UrlUp, UrlBad}

\* new URL(url) throws a TypeError for a string that is no absolute URL
UrlValid(url) == url = UrlUp

\* new URL(url).hostname
Hostname(url) == CASE url = UrlUp -> "up.example"

Domains == {Hostname(u) : u \in {v \in Urls : UrlValid(v)}}

VARIABLES
  now,           \* Date.now(), in minutes
  scan_results,  \* table scan_results: ScanIds -> row; scan_status "none": no such row yet
  rate_limits,   \* table rate_limits: a set of rows
  tasks,         \* TaskIds -> the position and the locals of one processScan invocation
  runs,          \* TaskIds -> what that invocation has done so far (history)
  admissions,    \* Domains -> the times at which the gate let a scan of the domain pass (history)
  budget,        \* intake calls left in this behaviour
  net,           \* how the network and the deployment are configured in this behaviour
  scoreIn,       \* SpecScore: the analyzer results handed to the aggregation
  scoreOut       \* SpecScore: what each application of the aggregation returned, in order

vars == <<now, scan_results, rate_limits, tasks, runs, admissions, budget, net, scoreIn, scoreOut>>

\* ------------------------------------------------------- fetched responses
\* What the regular expressions and header lookups of the analyzers see in one
\* fetched page: the matches are given, the analyzers compute from them.
PageBare ==
  [httpOk |-> TRUE,
   hsts |-> FALSE, xcto |-> FALSE, xfo |-> FALSE, csp |-> FALSE, xss |-> FALSE,
   cookieScript |-> FALSE,
   imgNoAlt |-> 3, hasLang |-> FALSE, emptyButtons |-> 0, inputs |-> 0, labels |-> 0,
   headings |-> 1, h1 |-> 1, emptyLinks |-> 0, skipLink |-> TRUE, negTabindex |-> 0,
   buttons |-> <<"Buy", "", "Sign in">>, links |-> 4, forms |-> 1,
   apiPaths |-> <<"/api/a", "https://cdn.example/x", "/api/a">>,
   images |-> 25, scripts |-> 16, stylesheets |-> 6, gzip |-> FALSE, cache |-> FALSE,
   loadTime |-> 3200,
   markers |-> {"react", "jquery", "server"},
   ogImage |-> "https://up.example/og.png"]

PageHardened ==
  [httpOk |-> TRUE,
   hsts |-> TRUE, xcto |-> TRUE, xfo |-> TRUE, csp |-> TRUE, xss |-> TRUE,
   cookieScript |-> FALSE,
   imgNoAlt |-> 0, hasLang |-> TRUE, emptyButtons |-> 0, inputs |-> 2, labels |-> 2,
   headings |-> 3, h1 |-> 1, emptyLinks |-> 0, skipLink |-> TRUE, negTabindex |-> 0,
   buttons |-> <<>>, links |-> 2, forms |-> 0,
   apiPaths |-> <<>>,
   images |-> 2, scripts |-> 3, stylesheets |-> 1, gzip |-> TRUE, cache |-> TRUE,
   loadTime |-> 400,
   markers |-> {"next", "tailwind"},
   ogImage |-> ""]

\* a page served with an HTTP error status (response.ok is false)
PageError ==
  [PageBare EXCEPT !.httpOk = FALSE, !.buttons = <<>>, !.apiPaths = <<>>, !.imgNoAlt = 0,
                   !.cookieScript = TRUE, !.loadTime = 1600]

Pages == {PageBare, PageHardened, PageError}

\* fetch(url, {signal}) and response.text(): a response, or a thrown error
\* (AbortError of the abort timer, or a network error)
Ok(page) == [kind |-> "ok", page |-> page]
Thrown(why) == [kind |-> why]
Timeout == Thrown("timeout")
NetworkError == Thrown("network")
Responses == {Ok(p) : p \in Pages} \cup {Timeout, NetworkError}

\* The outcomes of one fetch when every fetch may fail on its own: the page, the
\* page with an HTTP error status, no response
FlakyResponses == {Ok(PageBare), Ok(PageError), Timeout}

\* The site behind the target when the network is stable
Site(url) == Ok(net.site)

\* The outcomes one fetch of url can have in this behaviour. The fetch carries an
\* abort timer: with a peer that never answers it throws when the timer fires.
FetchOutcomes(url) ==
  IF net.silent THEN {Timeout}
  ELSE IF net.flaky THEN FlakyResponses ELSE {Site(url)}

\* error instanceof Error ? error.message : "..."
ErrorMessage(resp) == IF resp.kind = "timeout" THEN "The signal has been aborted" ELSE "network error"

IfPush(cond, seq, x) == IF cond THEN Append(seq, x) ELSE seq

Min(a, b) == IF a < b THEN a ELSE b
Max(a, b) == IF a > b THEN a ELSE b

\* Array.prototype.slice(0, n)
Slice(seq, n) == SubSeq(seq, 1, Min(Len(seq), n))

\* ---------------------------------------------------------------- analyzers
PendingSection == [status |-> "pending"]

SecurityIssue(sev, desc) == [severity |-> sev, category |-> "Security", description |-> desc]

\* Defect: the CSP check is the else branch of the frame-protection check
SecurityIssuesCspAsElse(page) ==
  LET i1 == IfPush(~page.hsts, <<>>, SecurityIssue("high", "Missing HSTS header"))
      i2 == IfPush(~page.xcto, i1, SecurityIssue("medium", "Missing X-Content-Type-Options header"))
      i3 == IfPush(~page.xfo /\ ~page.csp, i2, SecurityIssue("high", "Missing X-Frame-Options/CSP"))
      i4 == IfPush(~page.csp /\ ~(~page.xfo /\ ~page.csp), i3,
                   SecurityIssue("medium", "No Content-Security-Policy"))
      i5 == IfPush(~page.xss, i4, SecurityIssue("low", "Missing X-XSS-Protection header"))
  IN IfPush(page.cookieScript, i5, SecurityIssue("high", "JavaScript cookie manipulation detected"))

SecurityIssues(page) ==
  LET i1 == IfPush(~page.hsts, <<>>, SecurityIssue("high", "Missing HSTS header"))
      i2 == IfPush(~page.xcto, i1, SecurityIssue("medium", "Missing X-Content-Type-Options header"))
      i3 == IfPush(~page.xfo /\ ~page.csp, i2, SecurityIssue("high", "Missing X-Frame-Options/CSP"))
      i4 == IfPush(~page.csp, i3, SecurityIssue("medium", "No Content-Security-Policy"))
      i5 == IfPush(~page.xss, i4, SecurityIssue("low", "Missing X-XSS-Protection header"))
  IN IfPush(page.cookieScript, i5, SecurityIssue("high", "JavaScript cookie manipulation detected"))

\* url.startsWith("https")
StartsWithHttps(url) == url = UrlUp

performSecurityScan(url, resp) ==
  IF resp.kind = "ok"
  THEN LET issues == SecurityIssues(resp.page)
       IN [status |-> "completed", issues |-> issues,
           checks_performed |-> ChecksPerformed,
           checks_passed |-> ChecksPerformed - Len(issues),
           https_enabled |-> StartsWithHttps(url)]
  ELSE [status |-> "failed", error |-> ErrorMessage(resp), issues |-> <<>>,
        checks_performed |-> 0, checks_passed |-> 0, https_enabled |-> FALSE]

NonEmpty(s) == s # ""

FailedE2E(err) ==
  [status |-> "failed", error |-> err, buttons_found |-> 0, links_found |-> 0,
   forms_found |-> 0, primary_actions |-> <<>>]

\* domParser: whether the runtime defines DOMParser; without it the regex branch runs.
\* Array.prototype.filter is SelectSeq.
performE2EScan(resp, domParser) ==
  IF resp.kind # "ok" THEN FailedE2E(ErrorMessage(resp))
  ELSE IF ~resp.page.httpOk THEN FailedE2E("HTTP status")
  ELSE LET buttons == resp.page.buttons
       IN [status |-> "completed",
           buttons_found |-> Len(buttons),
           links_found |-> resp.page.links,
           forms_found |-> resp.page.forms,
           primary_actions |->
             IF domParser THEN Slice(SelectSeq(buttons, NonEmpty), 5)
             ELSE SelectSeq(Slice(buttons, 5), NonEmpty)]

\* path.startsWith('/')
StartsWithSlash(path) == path \in {"/api/a", "/api/b", "/api/c"}

Endpoint(path) == [method |-> "GET", path |-> path, status |-> 0]

MapEndpoints(paths) == [i \in 1..Len(paths) |-> Endpoint(paths[i])]

performAPIScan(resp) ==
  IF resp.kind = "ok"
  THEN LET endpoints == MapEndpoints(SelectSeq(resp.page.apiPaths, StartsWithSlash))
       IN [status |-> "completed",
           endpoints_detected |-> Len(endpoints), endpoints |-> Slice(endpoints, 10)]
  ELSE [status |-> "failed", error |-> ErrorMessage(resp),
        endpoints_detected |-> 0, endpoints |-> <<>>]

\* The answer of the PageSpeed Insights API: category scores in hundredths
\* (Math.round(score * 100) of a score given in steps of 0.01) and the metrics item
PageSpeedGood ==
  [httpOk |-> TRUE,
   categories |-> [performance |-> 91, accessibility |-> 88, bestPractices |-> 100, seo |-> 75],
   metrics |-> [firstContentfulPaint |-> 900, largestContentfulPaint |-> 1800,
                interactive |-> 2100, totalBlockingTime |-> 40,
                cumulativeLayoutShift |-> 12, speedIndex |-> 1500, observedLoad |-> 1300]]

PageSpeedPoor ==
  [PageSpeedGood EXCEPT !.categories.performance = 34, !.metrics.largestContentfulPaint = 6100]

\* a non-OK status of the API (quota exceeded, invalid key)
PageSpeedRefused == [PageSpeedGood EXCEPT !.httpOk = FALSE]

\* an OK status whose body has no lighthouseResult: reading its categories throws
PageSpeedNoResult == [httpOk |-> TRUE]

PageSpeedResponses ==
  {Ok(PageSpeedGood), Ok(PageSpeedPoor), Ok(PageSpeedRefused), Ok(PageSpeedNoResult),
   Timeout, NetworkError}

\* lines 1931-1935: the call carries an abort timer of 60 s
PageSpeedOutcomes ==
  IF net.silent THEN {Timeout}
  ELSE IF net.flaky THEN {Ok(PageSpeedPoor), Ok(PageSpeedRefused), Timeout}
  ELSE {net.pagespeed}

BasicScore(page) ==
  LET s1 == 100 - (IF page.loadTime > 3000 THEN 30 ELSE IF page.loadTime > 1500 THEN 15 ELSE 0)
      s2 == s1 - (IF page.images > 20 THEN 10 ELSE 0)
      s3 == s2 - (IF page.scripts > 15 THEN 10 ELSE 0)
      s4 == s3 - (IF page.stylesheets > 5 THEN 5 ELSE 0)
      s5 == s4 - (IF ~page.gzip THEN 15 ELSE 0)
      s6 == s5 - (IF ~page.cache THEN 10 ELSE 0)
  IN Max(0, s6)

\* Called with a response: a fetch that throws makes the function throw (it has no try)
performBasicPerformanceScan(resp) ==
  LET page == resp.page
      score == BasicScore(page)
  IN [status |-> "completed", score |-> score,
      load_time_ms |-> page.loadTime,
      image_count |-> page.images, scripts_count |-> page.scripts,
      stylesheets_count |-> page.stylesheets,
      compression_enabled |-> page.gzip, caching_enabled |-> page.cache,
      lighthouse_scores |-> [performance |-> score, seo |-> Max(0, score - 10)],
      source |-> "basic-scan"]

FailedPerformance(err) ==
  [status |-> "failed", error |-> err, score |-> 0, load_time_ms |-> 0]

\* The catch of performPerformanceScan around the basic scan
BasicOrFailed(resp) ==
  IF resp.kind = "ok" THEN performBasicPerformanceScan(resp)
  ELSE FailedPerformance(ErrorMessage(resp))

\* Defect: the status of the API's answer is not examined before its body is read
performGooglePageSpeedScanAnyStatus(ps, resp) ==
  IF ps.kind = "ok" /\ "categories" \in DOMAIN ps.page
  THEN LET c == ps.page.categories
           m == ps.page.metrics
       IN [status |-> "completed", score |-> c.performance,
           load_time_ms |-> m.observedLoad,
           image_count |-> 0,
           compression_enabled |-> TRUE, caching_enabled |-> TRUE,
           lighthouse_scores |-> [performance |-> c.performance,
                                  accessibility |-> c.accessibility,
                                  bestPractices |-> c.bestPractices, seo |-> c.seo],
           core_web_vitals |-> [fcp |-> m.firstContentfulPaint,
                                lcp |-> m.largestContentfulPaint,
                                tti |-> m.interactive, tbt |-> m.totalBlockingTime,
                                cls |-> m.cumulativeLayoutShift,
                                speedIndex |-> m.speedIndex],
           source |-> "google-pagespeed"]
  ELSE BasicOrFailed(resp)

\* ps: the answer of the API; resp: the fetch of the basic scan it falls back to
performGooglePageSpeedScan(ps, resp) ==
  IF ps.kind = "ok" /\ ps.page.httpOk /\ "categories" \in DOMAIN ps.page
  THEN LET c == ps.page.categories
           m == ps.page.metrics
       IN [status |-> "completed", score |-> c.performance,
           load_time_ms |-> m.observedLoad,
           image_count |-> 0,
           compression_enabled |-> TRUE, caching_enabled |-> TRUE,
           lighthouse_scores |-> [performance |-> c.performance,
                                  accessibility |-> c.accessibility,
                                  bestPractices |-> c.bestPractices, seo |-> c.seo],
           core_web_vitals |-> [fcp |-> m.firstContentfulPaint,
                                lcp |-> m.largestContentfulPaint,
                                tti |-> m.interactive, tbt |-> m.totalBlockingTime,
                                cls |-> m.cumulativeLayoutShift,
                                speedIndex |-> m.speedIndex],
           source |-> "google-pagespeed"]
  ELSE BasicOrFailed(resp)

performPerformanceScan(pagespeedApiKey, ps, resp) ==
  IF pagespeedApiKey THEN performGooglePageSpeedScan(ps, resp) ELSE BasicOrFailed(resp)

\* an issue, with its count where the code sets one (count = 0: none is set)
A11yIssue(sev, count, msg) ==
  IF count > 0 THEN [severity |-> sev, count |-> count, message |-> msg]
  ELSE [severity |-> sev, message |-> msg]

\* Defect: the lang check is the else branch of the image check
AccessibilityIssuesLangAsElse(page) ==
  LET i1 == IfPush(page.imgNoAlt > 0, <<>>,
                   A11yIssue("critical", page.imgNoAlt, "images missing alt text"))
      i2 == IfPush(~page.hasLang /\ ~(page.imgNoAlt > 0), i1,
                   A11yIssue("high", 0, "Missing lang attribute"))
      i3 == IfPush(page.emptyButtons > 0, i2,
                   A11yIssue("critical", page.emptyButtons, "buttons without accessible text"))
      i4 == IfPush(page.inputs > page.labels + 2, i3,
                   A11yIssue("high", page.inputs - page.labels, "form inputs possibly without labels"))
      i5 == IF page.h1 = 0 /\ page.headings > 0
            THEN Append(i4, A11yIssue("medium", 0, "Page has no H1 heading"))
            ELSE IfPush(page.h1 > 1, i4, A11yIssue("medium", 0, "Page has several H1 headings"))
      i6 == IfPush(page.emptyLinks > 0, i5,
                   A11yIssue("high", page.emptyLinks, "links without text"))
      i7 == IfPush(~page.skipLink, i6, A11yIssue("low", 0, "No skip navigation link found"))
  IN IfPush(page.negTabindex > 0, i7,
            A11yIssue("medium", page.negTabindex, "elements with negative tabindex"))

AccessibilityIssues(page) ==
  LET i1 == IfPush(page.imgNoAlt > 0, <<>>,
                   A11yIssue("critical", page.imgNoAlt, "images missing alt text"))
      i2 == IfPush(~page.hasLang, i1, A11yIssue("high", 0, "Missing lang attribute"))
      i3 == IfPush(page.emptyButtons > 0, i2,
                   A11yIssue("critical", page.emptyButtons, "buttons without accessible text"))
      i4 == IfPush(page.inputs > page.labels + 2, i3,
                   A11yIssue("high", page.inputs - page.labels, "form inputs possibly without labels"))
      i5 == IF page.h1 = 0 /\ page.headings > 0
            THEN Append(i4, A11yIssue("medium", 0, "Page has no H1 heading"))
            ELSE IfPush(page.h1 > 1, i4, A11yIssue("medium", 0, "Page has several H1 headings"))
      i6 == IfPush(page.emptyLinks > 0, i5,
                   A11yIssue("high", page.emptyLinks, "links without text"))
      i7 == IfPush(~page.skipLink, i6, A11yIssue("low", 0, "No skip navigation link found"))
  IN IfPush(page.negTabindex > 0, i7,
            A11yIssue("medium", page.negTabindex, "elements with negative tabindex"))

\* severityPoints[issue.severity] || 10
SeverityPoints(sev) ==
  CASE sev = "critical" -> 25 [] sev = "high" -> 15 [] sev = "medium" -> 8
    [] sev = "low" -> 3 [] OTHER -> 10

RECURSIVE TotalDeduction(_)
TotalDeduction(issues) ==
  IF issues = <<>> THEN 0
  ELSE SeverityPoints(Head(issues).severity) + TotalDeduction(Tail(issues))

performAccessibilityScan(resp) ==
  IF resp.kind = "ok"
  THEN LET issues == AccessibilityIssues(resp.page)
       IN [status |-> "completed", issues |-> issues,
           total_issues |-> Len(issues),
           score |-> Max(0, 100 - TotalDeduction(issues)),
           wcag_level |->
             IF \E i \in 1..Len(issues) : issues[i].severity \in {"critical", "high"}
             THEN "Fails Level A" ELSE "Passes Level A (potential AA issues)"]
  ELSE [status |-> "failed", error |-> ErrorMessage(resp), issues |-> <<>>,
        total_issues |-> 0, score |-> 0, wcag_level |-> "Unable to determine"]

Tech(name, confidence, category) == [name |-> name, confidence |-> confidence, category |-> category]

\* markers: the signatures found in the HTML and in the response headers
Detected(markers) ==
  LET has(m) == m \in markers
      d1 == IF has("next") THEN <<Tech("Next.js", "high", "Framework")>>
            ELSE IfPush(has("react"), <<>>, Tech("React", "medium", "Library"))
      d2 == IF has("nuxt") THEN Append(d1, Tech("Nuxt.js", "high", "Framework"))
            ELSE IfPush(has("vue"), d1, Tech("Vue.js", "medium", "Framework"))
      d3 == IfPush(has("angular"), d2, Tech("Angular", "high", "Framework"))
      d4 == IfPush(has("wordpress"), d3, Tech("WordPress", "high", "CMS"))
      d5 == IfPush(has("drupal"), d4, Tech("Drupal", "high", "CMS"))
      d6 == IfPush(has("svelte"), d5, Tech("Svelte", "medium", "Framework"))
      d7 == IfPush(has("jquery"), d6, Tech("jQuery", "high", "Library"))
      d8 == IfPush(has("tailwind") \/ has("utilityClass"), d7,
                   Tech("Tailwind CSS", "medium", "CSS Framework"))
      d9 == IfPush(has("bootstrapClass") /\ ~has("tailwind"), d8,
                   Tech("Bootstrap", "low", "CSS Framework"))
      d10 == IfPush(has("poweredBy"), d9, Tech("x-powered-by", "high", "Server"))
      d11 == IfPush(has("server"), d10, Tech("server", "high", "Web Server"))
  IN IfPush(has("aspnet"), d11, Tech("ASP.NET", "high", "Framework"))

detectTechStack(resp) ==
  IF resp.kind = "ok"
  THEN LET detected == Detected(resp.page.markers)
       IN [status |-> "completed", detected |-> detected,
           total_detected |-> Len(detected)]
  ELSE [status |-> "failed", error |-> ErrorMessage(resp), detected |-> <<>>,
        total_detected |-> 0]

\* ---------------------------------------------------------------- aggregator
\* x || d, for a number
OrElse(x, d) == IF x = 0 THEN d ELSE x

\* x || d, for a string
StrOrElse(x, d) == IF x = "" THEN d ELSE x

TopIssue(category, severity, description) ==
  [category |-> category, severity |-> severity, description |-> description]

FromSecurity(issues) ==
  [i \in 1..Len(issues) |->
     TopIssue(StrOrElse(issues[i].category, "Security"), StrOrElse(issues[i].severity, "low"),
              issues[i].description)]

FromAccessibility(issues) ==
  [i \in 1..Len(issues) |->
     TopIssue("Accessibility", StrOrElse(issues[i].severity, "low"), issues[i].message)]

\* sortOrder = { critical: 0, high: 1, medium: 2, low: 3 }; a severity that is no key
\* of it gives undefined, which || 99 treats as it treats 0
SortOrder(sev) ==
  CASE sev = "critical" -> 0 [] sev = "high" -> 1 [] sev = "medium" -> 2
    [] sev = "low" -> 3 [] OTHER -> 0

SortKey(issue) == OrElse(SortOrder(issue.severity), 99)

\* the issues whose comparator value is key, in the order they have in issues
WithKey(issues, key) == SelectSeq(issues, LAMBDA issue : SortKey(issue) = key)

\* Array.prototype.sort with the comparator a, b -> SortKey(a) - SortKey(b). The
\* sort is stable, and SortKey has the values 1, 2, 3 and 99 only: the result is
\* the issues of key 1 in their order, then those of key 2, of key 3, of key 99
SortIssues(issues) ==
  WithKey(issues, 1) \o WithKey(issues, 2) \o WithKey(issues, 3) \o WithKey(issues, 99)

extractTopIssues(scanResults) ==
  LET sec == FromSecurity(scanResults.security.issues)
      acc == FromAccessibility(scanResults.accessibility.issues)
      perf == IF scanResults.performance.score < 50
              THEN <<TopIssue("Performance", "high", "Poor performance score")>>
              ELSE <<>>
  IN Slice(SortIssues(sec \o acc \o perf), 10)

\* weights, in hundredths
WSecurity == 30
WPerformance == 25
WAccessibility == 25
WE2E == 10
WApi == 10

\* Math.round(n / d) for n >= 0, d > 0: the nearest integer, a half rounds up
Round(n, d) == (2 * n + d) \div (2 * d)

\* Defect: the sum is divided by the weight of all five analyzers, failed or not
calculateOverallScoreOverAllWeights(scanResults) ==
  LET done(a) == scanResults[a].status = "completed"
      den == IF done("security") THEN OrElse(scanResults.security.checks_performed, 1) ELSE 1
      score ==
        (IF done("security") THEN scanResults.security.checks_passed * 100 * WSecurity ELSE 0)
        + (IF done("performance") THEN den * scanResults.performance.score * WPerformance ELSE 0)
        + (IF done("accessibility") THEN den * scanResults.accessibility.score * WAccessibility ELSE 0)
        + (IF done("e2e")
           THEN den * (IF scanResults.e2e.buttons_found > 0 THEN 80 ELSE 50) * WE2E ELSE 0)
        + (IF done("api") THEN den * 70 * WApi ELSE 0)
  IN Round(score, den * (WSecurity + WPerformance + WAccessibility + WE2E + WApi))

\* totalScore is kept as a fraction score / den, den being the divisor of secScore;
\* the doubles of the code give the same rounded value for every input the
\* analyzers can produce
calculateOverallScore(scanResults) ==
  LET secDone == scanResults.security.status = "completed"
      den == IF secDone THEN OrElse(scanResults.security.checks_performed, 1) ELSE 1
      t0 == [score |-> 0, weight |-> 0]
      t1 == IF secDone
            THEN [score |-> t0.score + OrElse(scanResults.security.checks_passed, 0) * 100 * WSecurity,
                  weight |-> t0.weight + WSecurity]
            ELSE t0
      t2 == IF scanResults.performance.status = "completed"
            THEN [score |-> t1.score + den * OrElse(scanResults.performance.score, 0) * WPerformance,
                  weight |-> t1.weight + WPerformance]
            ELSE t1
      t3 == IF scanResults.accessibility.status = "completed"
            THEN [score |-> t2.score + den * OrElse(scanResults.accessibility.score, 0) * WAccessibility,
                  weight |-> t2.weight + WAccessibility]
            ELSE t2
      t4 == IF scanResults.e2e.status = "completed"
            THEN [score |-> t3.score
                            + den * (IF OrElse(scanResults.e2e.buttons_found, 0) > 0 THEN 80 ELSE 50) * WE2E,
                  weight |-> t3.weight + WE2E]
            ELSE t3
      t5 == IF scanResults.api.status = "completed"
            THEN [score |-> t4.score + den * 70 * WApi, weight |-> t4.weight + WApi]
            ELSE t4
  IN IF t5.weight > 0 THEN Round(t5.score, den * t5.weight) ELSE 0

\* ------------------------------------------------------------- persistence
NoRow == [scan_status |-> "none"]

\* supabase .update(fields).eq("id", id): the named columns of the matching row
\* change, the others keep their values; no row matches: nothing happens
UpdateRow(row, fields) ==
  IF row.scan_status = "none" THEN row
  ELSE [k \in DOMAIN row \cup DOMAIN fields |-> IF k \in DOMAIN fields THEN fields[k] ELSE row[k]]

RowsOf(domain) == {r \in rate_limits : r.domain = domain}

\* .select("*").eq("domain", domain).maybeSingle(): the row, or null (here <<>>)
\* when there is none; with several rows data is null as well
MaybeSingle(domain) ==
  IF Cardinality(RowsOf(domain)) = 1 THEN <<CHOOSE r \in RowsOf(domain) : TRUE>> ELSE <<>>

\* rate_limits.domain is UNIQUE: an insert for a domain that has a row is refused
\* (the error is returned, and processScan does not look at it)
InsertRateLimitRow(rows, row) ==
  IF \E r \in rows : r.domain = row.domain THEN rows ELSE rows \cup {row}

\* .update({scan_count, last_scan_at}).eq("domain", domain)
UpdateRateLimitRows(rows, domain, fields) ==
  {IF r.domain = domain
   THEN [r EXCEPT !.scan_count = fields.scan_count, !.last_scan_at = fields.last_scan_at]
   ELSE r : r \in rows}

\* Defect: the gate compares with > 5
RateLimitExceededAboveMax(rateLimit, time) ==
  /\ rateLimit.window_start > time - WindowMinutes
  /\ rateLimit.scan_count > RateLimitMax

\* new Date(rateLimit.window_start) > hourAgo && rateLimit.scan_count >= 5
RateLimitExceeded(rateLimit, time) ==
  /\ rateLimit.window_start > time - WindowMinutes
  /\ rateLimit.scan_count >= RateLimitMax

\* -------------------------------------------------------------- processScan
IdleTask == [pc |-> "idle"]
NoRun == [acked |-> FALSE, writes |-> <<>>, invoked |-> {}, outcome |-> "none", thrown |-> "none"]

Free(t) == tasks[t].pc \in {"idle", "done"}

\* The slot a new invocation takes: the lowest free one
FreeSlot(t) == Free(t) /\ \A u \in TaskIds : u < t => ~Free(u)

At(t, pc) == tasks[t].pc = pc

SetStatus(id, status) ==
  scan_results' = [scan_results EXCEPT ![id] = UpdateRow(@, [scan_status |-> status])]

Wrote(t, status) == [runs[t] EXCEPT !.writes = Append(@, status)]

\* Defect: the handler awaits processScan(...) before it responds
RespondsAfterProcessScan == FALSE

\* line 312: processScan(...) is called and not awaited, so the handler reaches
\* its `return new Response(...)` in the same turn
RespondsAtOnce == TRUE

\* App.tsx handleScan: insert({target_url, scan_status: 'pending'})
CreateScan(id, url) ==
  /\ scan_results[id].scan_status = "none"
  /\ \A j \in ScanIds : j < id => scan_results[j].scan_status # "none"
  /\ scan_results' = [scan_results EXCEPT ![id] = [target_url |-> url, scan_status |-> "pending"]]
  /\ UNCHANGED <<now, rate_limits, tasks, runs, admissions, budget, net, scoreIn, scoreOut>>

\* Deno.serve handler, for a request whose body parses: processScan runs up to its
\* first await (the update to "processing" is sent), then the response is returned.
\* The body is the one handleScan posts: the id and the url of a row it inserted.
Intake(t, id) ==
  /\ budget > 0
  /\ FreeSlot(t)
  /\ scan_results[id].scan_status # "none"
  /\ tasks' = [tasks EXCEPT ![t] = [pc |-> "setProcessing", scanId |-> id,
                                    url |-> scan_results[id].target_url]]
  /\ runs' = [runs EXCEPT ![t] = [NoRun EXCEPT !.acked = RespondsAtOnce, !.outcome = "running"]]
  /\ budget' = budget - 1
  /\ UNCHANGED <<now, scan_results, rate_limits, admissions, net, scoreIn, scoreOut>>

\* lines 340-353: the update to "processing" has returned; the domain is derived
\* (an invalid URL throws into the catch) and the rate_limits select is sent
SetProcessing(t) ==
  /\ At(t, "setProcessing")
  /\ SetStatus(tasks[t].scanId, "processing")
  /\ runs' = [runs EXCEPT ![t] = [Wrote(t, "processing") EXCEPT
                                    !.thrown = IF UrlValid(tasks[t].url) THEN @ ELSE "TypeError"]]
  /\ tasks' = [tasks EXCEPT ![t].pc = IF UrlValid(tasks[t].url) THEN "selectRateLimit" ELSE "catch"]
  /\ UNCHANGED <<now, rate_limits, admissions, budget, net, scoreIn, scoreOut>>

\* lines 349-387: the select has returned; the gate decides and sends its write
SelectRateLimit(t) ==
  /\ At(t, "selectRateLimit")
  /\ LET domain == Hostname(tasks[t].url)
         data == MaybeSingle(domain)
     IN tasks' = [tasks EXCEPT ![t] =
          IF data # <<>>
          THEN IF RateLimitExceeded(data[1], now)
               THEN [@ EXCEPT !.pc = "rejected"]
               ELSE [pc |-> "updateRateLimit", scanId |-> @.scanId, url |-> @.url,
                     write |-> [scan_count |-> data[1].scan_count + 1, last_scan_at |-> now]]
          ELSE [pc |-> "insertRateLimit", scanId |-> @.scanId, url |-> @.url,
                write |-> [domain |-> domain, scan_count |-> 1,
                           window_start |-> now, last_scan_at |-> now]]]
  /\ UNCHANGED <<now, scan_results, rate_limits, runs, admissions, budget, net, scoreIn, scoreOut>>

\* lines 1631-1638: every section of the results starts as pending
PendingResults ==
  [e2e |-> PendingSection, api |-> PendingSection, security |-> PendingSection,
   performance |-> PendingSection, accessibility |-> PendingSection,
   techStack |-> PendingSection]

\* Defect: the rejection branch does not return, the scan goes on into performScan
RejectScanWithoutReturn(t) ==
  /\ At(t, "rejected")
  /\ SetStatus(tasks[t].scanId, "failed")
  /\ runs' = [runs EXCEPT ![t] = [Wrote(t, "failed") EXCEPT !.outcome = "rejected"]]
  /\ tasks' = [tasks EXCEPT ![t] = [pc |-> "e2e", scanId |-> @.scanId, url |-> @.url,
                                    scanResults |-> PendingResults]]
  /\ UNCHANGED <<now, rate_limits, admissions, budget, net, scoreIn, scoreOut>>

\* Defect: a rejected attempt is counted in the row of its domain
RejectScanCountingAttempt(t) ==
  /\ At(t, "rejected")
  /\ SetStatus(tasks[t].scanId, "failed")
  /\ rate_limits' = {IF r.domain = Hostname(tasks[t].url)
                      THEN [r EXCEPT !.scan_count = @ + 1, !.last_scan_at = now]
                      ELSE r : r \in rate_limits}
  /\ runs' = [runs EXCEPT ![t] = [Wrote(t, "failed") EXCEPT !.outcome = "rejected"]]
  /\ tasks' = [tasks EXCEPT ![t].pc = "done"]
  /\ UNCHANGED <<now, admissions, budget, net, scoreIn, scoreOut>>

\* lines 358-370: the update to "failed" of a rejected scan has returned; processScan returns
RejectScan(t) ==
  /\ At(t, "rejected")
  /\ SetStatus(tasks[t].scanId, "failed")
  /\ runs' = [runs EXCEPT ![t] = [Wrote(t, "failed") EXCEPT !.outcome = "rejected"]]
  /\ tasks' = [tasks EXCEPT ![t].pc = "done"]
  /\ UNCHANGED <<now, rate_limits, admissions, budget, net, scoreIn, scoreOut>>

\* The scan passes the gate: performScan is entered and the first fetch is sent.
\* The admission is dated with the time at which the gate decided.
EnterPerformScan(t) ==
  /\ tasks' = [tasks EXCEPT ![t] = [pc |-> "e2e", scanId |-> @.scanId, url |-> @.url,
                                    scanResults |-> PendingResults]]
  /\ admissions' = [admissions EXCEPT ![Hostname(tasks[t].url)] =
                                        Append(@, tasks[t].write.last_scan_at)]

\* lines 373-379: the increment of the existing row has been applied
UpdateRateLimit(t) ==
  /\ At(t, "updateRateLimit")
  /\ rate_limits' = UpdateRateLimitRows(rate_limits, Hostname(tasks[t].url), tasks[t].write)
  /\ EnterPerformScan(t)
  /\ UNCHANGED <<now, scan_results, runs, budget, net, scoreIn, scoreOut>>

\* lines 381-386: the insert of the first row has been answered
InsertRateLimit(t) ==
  /\ At(t, "insertRateLimit")
  /\ rate_limits' = InsertRateLimitRow(rate_limits, tasks[t].write)
  /\ EnterPerformScan(t)
  /\ UNCHANGED <<now, scan_results, runs, budget, net, scoreIn, scoreOut>>

Invoked(t, what) == [runs[t] EXCEPT !.invoked = @ \cup {what}]

\* Defect: a failed analyzer rethrows, and the catch of processScan ends the scan
AnalyzerStepAborting(t, pc, section, result, next) ==
  /\ At(t, pc)
  /\ tasks' = [tasks EXCEPT ![t].scanResults[section] = result,
                            ![t].pc = IF result.status = "failed" THEN "catch" ELSE next]
  /\ runs' = [runs EXCEPT ![t] = Invoked(t, section)]
  /\ UNCHANGED <<now, scan_results, rate_limits, admissions, budget, net, scoreIn, scoreOut>>

\* One analyzer of performScan returns into results.<section>; the next fetch is sent
AnalyzerStep(t, pc, section, result, next) ==
  /\ At(t, pc)
  /\ tasks' = [tasks EXCEPT ![t].scanResults[section] = result, ![t].pc = next]
  /\ runs' = [runs EXCEPT ![t] = Invoked(t, section)]
  /\ UNCHANGED <<now, scan_results, rate_limits, admissions, budget, net, scoreIn, scoreOut>>

\* lines 1640-1645
E2EScan(t) ==
  /\ At(t, "e2e")
  /\ \E resp \in FetchOutcomes(tasks[t].url) :
       AnalyzerStep(t, "e2e", "e2e", performE2EScan(resp, net.domParser), "api")

\* lines 1647-1652
APIScan(t) ==
  /\ At(t, "api")
  /\ \E resp \in FetchOutcomes(tasks[t].url) :
       AnalyzerStep(t, "api", "api", performAPIScan(resp), "security")

\* lines 1654-1659
SecurityScan(t) ==
  /\ At(t, "security")
  /\ \E resp \in FetchOutcomes(tasks[t].url) :
       AnalyzerStep(t, "security", "security", performSecurityScan(tasks[t].url, resp),
                    "performance")

\* lines 1661-1666
PerformanceScan(t) ==
  /\ At(t, "performance")
  /\ \E resp \in FetchOutcomes(tasks[t].url) :
       \E ps \in (IF net.pagespeedKey THEN PageSpeedOutcomes ELSE {Timeout}) :
         AnalyzerStep(t, "performance", "performance",
                      performPerformanceScan(net.pagespeedKey, ps, resp), "accessibility")

\* lines 1668-1673
AccessibilityScan(t) ==
  /\ At(t, "accessibility")
  /\ \E resp \in FetchOutcomes(tasks[t].url) :
       AnalyzerStep(t, "accessibility", "accessibility", performAccessibilityScan(resp),
                    "techStack")

\* lines 1675-1682 and 393-409: the last analyzer returns, performScan returns,
\* the aggregate is computed and the fetch for the OG image is sent
TechStackScan(t) ==
  /\ At(t, "techStack")
  /\ \E resp \in FetchOutcomes(tasks[t].url) :
          LET scanResults == [tasks[t].scanResults EXCEPT !.techStack = detectTechStack(resp)]
          IN tasks' = [tasks EXCEPT ![t] =
               [pc |-> "ogImage", scanId |-> @.scanId, url |-> @.url,
                scanResults |-> scanResults,
                topIssues |-> extractTopIssues(scanResults),
                overallScore |-> calculateOverallScore(scanResults)]]
     /\ runs' = [runs EXCEPT ![t].invoked = @ \cup {"techStack", "aggregate"}]
     /\ UNCHANGED <<now, scan_results, rate_limits, admissions, budget, net, scoreIn, scoreOut>>

\* the og:image meta tag of the page, null when there is none
extractOGImage(page) == IF page.ogImage = "" THEN Null ELSE page.ogImage

Extend(rec, fields) ==
  [k \in DOMAIN rec \cup DOMAIN fields |-> IF k \in DOMAIN fields THEN fields[k] ELSE rec[k]]

\* lines 398-426: the OG image fetch returns or throws; the completion request is sent
OgImage(t) ==
  /\ At(t, "ogImage")
  /\ \E resp \in FetchOutcomes(tasks[t].url) :
          tasks' = [tasks EXCEPT ![t] =
            Extend(@, [pc |-> "ai",
                       ogImage |-> IF resp.kind = "ok" /\ resp.page.httpOk
                                   THEN extractOGImage(resp.page) ELSE Null])]
     /\ UNCHANGED <<now, scan_results, rate_limits, runs, admissions, budget, net, scoreIn, scoreOut>>

\* The answer of the completion API: its content ("" when there is none) and,
\* when the content parses as JSON, the parsed object
AiJson == [httpOk |-> TRUE, content |-> "{json}",
           parsed |-> <<[summary |-> "Summary", recommendations |-> <<"Add HSTS", "Add alt text">>]>>]
AiText == [httpOk |-> TRUE, content |-> "Plain words", parsed |-> <<>>]
AiEmpty == [httpOk |-> TRUE, content |-> "", parsed |-> <<>>]
AiRefused == [httpOk |-> FALSE, content |-> "", parsed |-> <<>>]
\* content that parses to an object without a summary
AiPartial == [httpOk |-> TRUE, content |-> "{recommendations}",
              parsed |-> <<[summary |-> "", recommendations |-> <<"Add HSTS">>]>>]
\* content that parses to an object with 13 recommendations
AiVerbose == [httpOk |-> TRUE, content |-> "{thirteen}",
              parsed |-> <<[summary |-> "Summary",
                            recommendations |-> <<"r1", "r2", "r3", "r4", "r5", "r6", "r7",
                                                  "r8", "r9", "r10", "r11", "r12", "r13">>]>>]
AiResponses ==
  {Ok(AiJson), Ok(AiText), Ok(AiEmpty), Ok(AiRefused), Ok(AiPartial), Ok(AiVerbose),
   Timeout, NetworkError}
\* lines 2531-2548: the fetch is given no signal and no timer, so with a peer that
\* never answers the await never returns: there is no outcome
AiOutcomes ==
  IF net.silent THEN {}
  ELSE IF net.flaky THEN {Ok(AiJson), Ok(AiText), Timeout} ELSE {net.completion}

NoAnalysis == [summary |-> Null, recommendations |-> <<>>]

\* Defect: content that does not parse is dropped
generateAIAnalysisDroppingText(groqKey, resp) ==
  IF ~groqKey THEN NoAnalysis
  ELSE IF resp.kind # "ok" THEN NoAnalysis
  ELSE IF ~resp.page.httpOk THEN NoAnalysis
  ELSE IF resp.page.content = "" THEN NoAnalysis
  ELSE IF resp.page.parsed = <<>> THEN NoAnalysis
  ELSE [summary |-> StrOrElse(resp.page.parsed[1].summary, Null),
        recommendations |-> resp.page.parsed[1].recommendations]

generateAIAnalysis(groqKey, resp) ==
  IF ~groqKey THEN NoAnalysis
  ELSE IF resp.kind # "ok" THEN NoAnalysis
  ELSE IF ~resp.page.httpOk THEN NoAnalysis
  ELSE IF resp.page.content = "" THEN NoAnalysis
  ELSE IF resp.page.parsed = <<>> THEN [summary |-> resp.page.content, recommendations |-> <<>>]
  ELSE [summary |-> StrOrElse(resp.page.parsed[1].summary, Null),
        recommendations |-> resp.page.parsed[1].recommendations]

Names(detected) == [i \in 1..Len(detected) |-> detected[i].name]
Paths(endpoints) == [i \in 1..Len(endpoints) |-> endpoints[i].path]

\* lines 471-477
DerivedColumns(scanResults) ==
  [performance_score |->
     OrElse(scanResults.performance.score,
            IF "lighthouse_scores" \in DOMAIN scanResults.performance
            THEN scanResults.performance.lighthouse_scores.performance ELSE 0),
   seo_score |->
     IF "lighthouse_scores" \in DOMAIN scanResults.performance
     THEN scanResults.performance.lighthouse_scores.seo ELSE 0,
   accessibility_issue_count |-> scanResults.accessibility.total_issues,
   security_checks_passed |-> Max(0, 7 - Len(scanResults.security.issues)),
   security_checks_total |-> 7,
   technologies |-> Names(scanResults.techStack.detected),
   exposed_endpoints |-> Paths(scanResults.api.endpoints)]

\* lines 421-483: the AI analysis returns; the report generation starts
AiAnalysis(t) ==
  /\ At(t, "ai")
  /\ \E resp \in (IF net.groqKey THEN AiOutcomes ELSE {Timeout}) :
       LET ai == generateAIAnalysis(net.groqKey, resp)
       IN tasks' = [tasks EXCEPT ![t] =
            Extend(@, [pc |-> "pdf", aiSummary |-> ai.summary,
                       aiRecommendations |-> ai.recommendations])]
  /\ runs' = [runs EXCEPT ![t] = Invoked(t, "ai")]
  /\ UNCHANGED <<now, scan_results, rate_limits, admissions, budget, net, scoreIn, scoreOut>>

\* Whether the report generation can throw in this behaviour
PdfOutcomes == IF net.flaky THEN {TRUE, FALSE} ELSE {TRUE}

\* let pdfBase64: string | null = null
NullPdf == [null |-> TRUE]

\* A page of the report: the title handed to drawPageHeader and the items the
\* loop of the page draws (the labels of the metrics on the Core Web Vitals
\* page, the top issues, the technologies, the recommendations)
ReportPage(title, items) == [title |-> title, items |-> items]

\* A loop over items that draws perRow items side by side at the cursor, moves
\* the cursor down by step after each row, looks at no more than cap items and
\* breaks at the first item for which the cursor is below floor
DrawnItems(items, top, step, floor, perRow, cap) ==
  LET y(i) == top - ((i - 1) \div perRow) * step
      n == Cardinality({i \in 1..Min(Len(items), cap) : y(i) >= floor})
  IN SubSeq(items, 1, n)

\* lines 854-901: the cursor starts under the header and the section title;
\* topIssues.slice(0, 10), 30 per issue, break when y < 60
DrawnTopIssues(task) ==
  DrawnItems(task.topIssues, PageHeight - HeaderDrop - 20, 30, 60, 1, 10)

\* lines 1413-1468: two boxes per row, 35 per row, break when currentY < 80
DrawnTechnologies(technologies) ==
  DrawnItems(technologies, PageHeight - HeaderDrop - 25 - 20, 35, 80, 2, Len(technologies))

\* lines 1502-1562: under the summary box, when there is a summary (20 for its
\* title, 12 for each line, 30 below; the summaries here wrap to one line), and
\* the section title (18); 14 per recommendation, break when y < 80 or after 12
DrawnRecommendations(task) ==
  LET underSummary == IF task.aiSummary \notin {Null, ""} THEN 20 + 12 + 30 ELSE 0
  IN DrawnItems(task.aiRecommendations, PageHeight - HeaderDrop - underSummary - 18,
                14, 80, 1, 12)

\* lines 511-568: drawPageHeader draws the header bar with the brand mark, the
\* title and `Page ${pageNum}`, and the footer rule with its caption
drawPageHeader(page, pageNum) ==
  Extend(page, [header |-> TRUE, footer |-> TRUE, number |-> <<pageNum>>])

\* lines 574-714: page 1 draws its own title and body; drawPageHeader is not
\* called for it, so it has no header bar, no page number and no footer
NoPageHeader == [header |-> FALSE, footer |-> FALSE, number |-> <<>>]

\* line 1154: vitalMetrics
VitalMetrics ==
  <<"First Contentful Paint (FCP)", "Largest Contentful Paint (LCP)",
    "Cumulative Layout Shift (CLS)", "Total Blocking Time (TBT)",
    "Time to Interactive (TTI)", "Speed Index">>

\* lines 1143-1198: y starts under the header and the caption, the loop stops
\* at the first metric for which y < VitalFloor, and every metric drawn takes
\* VitalStep
DrawnVitalMetrics ==
  LET y(i) == (PageHeight - HeaderDrop - CaptionDrop) - (i - 1) * VitalStep
      n == Cardinality({i \in 1..Len(VitalMetrics) : \A j \in 1..i : y(j) >= VitalFloor})
  IN SubSeq(VitalMetrics, 1, n)

\* lines 573-1565: the pages added to the document, in order. Pages 1 to 5 are
\* added whatever the results are; scanResults.e2e is an object for every scan.
\* pageNum starts at 1 (line 571) and every page after the first is handed
\* pageNum++, so the i-th page of the document is numbered i - 1
ReportPages(task) ==
  LET perf == task.scanResults.performance
      technologies == Names(task.scanResults.techStack.detected)
      fixed == <<ReportPage("Executive Summary", <<>>),
                 ReportPage("Scan Results Overview", <<>>),
                 ReportPage("Detailed Scan Results", DrawnTopIssues(task)),
                 ReportPage("Security & Performance", <<>>),
                 ReportPage("Accessibility & Technologies", <<>>)>>
      p6 == IfPush("core_web_vitals" \in DOMAIN perf, fixed,
                   ReportPage("Core Web Vitals", DrawnVitalMetrics))
      p7 == IfPush("lighthouse_scores" \in DOMAIN perf, p6,
                   ReportPage("Google Lighthouse Scores", <<>>))
      p8 == IfPush("e2e" \in DOMAIN task.scanResults, p7,
                   ReportPage("End-to-End Testing Analysis", <<>>))
      p9 == IfPush(Len(technologies) > 0, p8,
                   ReportPage("Technologies Detected", DrawnTechnologies(technologies)))
      added == IfPush(task.aiSummary \notin {Null, ""} \/ Len(task.aiRecommendations) > 0, p9,
                      ReportPage("AI Analysis & Recommendations", DrawnRecommendations(task)))
  IN [i \in 1..Len(added) |->
        IF i = 1 THEN Extend(added[i], NoPageHeader) ELSE drawPageHeader(added[i], i - 1)]

\* lines 1567-1568: the saved document, base64-encoded
ReportDocument(task) == [null |-> FALSE, pages |-> ReportPages(task)]

\* Defect: an exception of the report generation is not caught where it is thrown
GeneratePdfRethrowing(t) ==
  /\ At(t, "pdf")
  /\ \E ok \in PdfOutcomes :
       /\ tasks' = [tasks EXCEPT ![t] =
            IF ok THEN Extend(@, [pc |-> "finalWrite", pdfBase64 |-> ReportDocument(@)])
            ELSE [@ EXCEPT !.pc = "catch"]]
       /\ runs' = [runs EXCEPT ![t] = [Invoked(t, "pdf") EXCEPT
                                         !.thrown = IF ok THEN @ ELSE "pdfErr"]]
  /\ UNCHANGED <<now, scan_results, rate_limits, admissions, budget, net, scoreIn, scoreOut>>

\* lines 479-1598: the report is generated or its generation throws (pdfBase64
\* stays null); the final update is sent
GeneratePdf(t) ==
  /\ At(t, "pdf")
  /\ \E ok \in PdfOutcomes :
       tasks' = [tasks EXCEPT ![t] =
         Extend(@, [pc |-> "finalWrite",
                    pdfBase64 |-> IF ok THEN ReportDocument(@) ELSE NullPdf])]
  /\ runs' = [runs EXCEPT ![t] = Invoked(t, "pdf")]
  /\ UNCHANGED <<now, scan_results, rate_limits, admissions, budget, net, scoreIn, scoreOut>>

\* Defect: the final update carries the status alone
FinalFieldsStatusOnly(task) == [scan_status |-> "completed"]

\* lines 1576-1597
FinalFields(task) ==
  Extend([scan_status |-> "completed",
          overall_score |-> task.overallScore,
          e2e_results |-> task.scanResults.e2e,
          api_results |-> task.scanResults.api,
          security_results |-> task.scanResults.security,
          performance_results |-> task.scanResults.performance,
          accessibility_results |-> task.scanResults.accessibility,
          tech_stack |-> task.scanResults.techStack,
          top_issues |-> task.topIssues,
          ai_summary |-> task.aiSummary,
          ai_recommendations |-> task.aiRecommendations,
          og_image |-> task.ogImage,
          pdf_report |-> task.pdfBase64],
         DerivedColumns(task.scanResults))

Finished(t) == [pc |-> "done", scanId |-> tasks[t].scanId, url |-> tasks[t].url]

\* Whether the final update can be refused (its answer carries an error) in this
\* behaviour
FinalUpdateOutcomes == IF net.flaky THEN {TRUE, FALSE} ELSE {TRUE}

\* lines 1574-1605: the final update has been answered: it has been applied, or
\* it has been refused, updateError is thrown and the catch sends its update
FinalWrite(t) ==
  /\ At(t, "finalWrite")
  /\ \E ok \in FinalUpdateOutcomes :
       IF ok
       THEN /\ scan_results' = [scan_results EXCEPT ![tasks[t].scanId] =
                                  UpdateRow(@, FinalFields(tasks[t]))]
            /\ runs' = [runs EXCEPT ![t] = [Wrote(t, "completed") EXCEPT !.outcome = "completed"]]
            /\ tasks' = [tasks EXCEPT ![t] = Finished(t)]
       ELSE /\ scan_results' = scan_results
            /\ runs' = [runs EXCEPT ![t].thrown = "updateError"]
            /\ tasks' = [tasks EXCEPT ![t].pc = "catch"]
  /\ UNCHANGED <<now, rate_limits, admissions, budget, net, scoreIn, scoreOut>>

\* Defect: the catch persists the score and the top issues computed so far
CatchFailedKeepingScore(t) ==
  /\ At(t, "catch")
  /\ scan_results' = [scan_results EXCEPT ![tasks[t].scanId] =
       UpdateRow(@, IF "overallScore" \in DOMAIN tasks[t]
                    THEN [scan_status |-> "failed", overall_score |-> tasks[t].overallScore,
                          top_issues |-> tasks[t].topIssues]
                    ELSE [scan_status |-> "failed"])]
  /\ runs' = [runs EXCEPT ![t] = [Wrote(t, "failed") EXCEPT !.outcome = "failed"]]
  /\ tasks' = [tasks EXCEPT ![t] = Finished(t)]
  /\ UNCHANGED <<now, rate_limits, admissions, budget, net, scoreIn, scoreOut>>

\* lines 1606-1617: the update to "failed" sent by the catch has been applied
CatchFailed(t) ==
  /\ At(t, "catch")
  /\ SetStatus(tasks[t].scanId, "failed")
  /\ runs' = [runs EXCEPT ![t] = [Wrote(t, "failed") EXCEPT !.outcome = "failed"]]
  /\ tasks' = [tasks EXCEPT ![t] = Finished(t)]
  /\ UNCHANGED <<now, rate_limits, admissions, budget, net, scoreIn, scoreOut>>

\* generate-pdf, lines 135 and 308: the two pages of its document
GeneratePdfPages ==
  <<ReportPage("Executive Summary", <<>>), ReportPage("Technical Details", <<>>)>>

\* generate-pdf, lines 16-560: a request {scanId} has been served. The row is
\* selected by its id alone (no row: 404 and nothing is written); the document
\* is generated from it and, unless the generation threw, stored with
\* update({pdf_report}).eq("id", scanId), whatever the status of the row is and
\* whether or not it already holds a report
GeneratePdfRequest(id) ==
  /\ scan_results[id].scan_status # "none"
  /\ \E ok \in PdfOutcomes :
       scan_results' = [scan_results EXCEPT ![id] =
         IF ok THEN UpdateRow(@, [pdf_report |-> [null |-> FALSE, pages |-> GeneratePdfPages]])
         ELSE @]
  /\ UNCHANGED <<now, rate_limits, tasks, runs, admissions, budget, net, scoreIn, scoreOut>>

\* Time passes
Tick ==
  /\ now < MaxTime
  /\ now' = now + TickStep
  /\ UNCHANGED <<scan_results, rate_limits, tasks, runs, admissions, budget, net, scoreIn, scoreOut>>

\* ------------------------------------------------------------ specifications
\* The deployment as the repository configures it: no PageSpeed key, no Groq key,
\* no DOMParser in the edge runtime; every fetch of a target answers the same way
DefaultNet ==
  [flaky |-> FALSE, silent |-> FALSE, pagespeedKey |-> FALSE, groqKey |-> FALSE,
   domParser |-> FALSE, site |-> PageBare, pagespeed |-> Ok(PageSpeedGood),
   completion |-> Ok(AiJson)]

\* Deployments in which keys may be configured and every single fetch may fail,
\* or in which no peer ever answers
FlakyNets ==
  {[flaky |-> TRUE, silent |-> s, pagespeedKey |-> k, groqKey |-> k, domParser |-> k,
    site |-> PageBare, pagespeed |-> Ok(PageSpeedGood), completion |-> Ok(AiJson)] :
     k \in BOOLEAN, s \in BOOLEAN}

\* The rate_limits table after k scans of every domain have been admitted, one
\* after the other, all at time 0 (k = 0: no scan yet, no row)
AfterScans(k) ==
  /\ rate_limits = IF k = 0 THEN {}
                   ELSE {[domain |-> d, scan_count |-> k, window_start |-> 0,
                          last_scan_at |-> 0] : d \in Domains}
  /\ admissions = [d \in Domains |-> [i \in 1..k |-> 0]]

InitRows ==
  /\ now = 0
  /\ scan_results = [id \in ScanIds |-> NoRow]
  /\ tasks = [t \in TaskIds |-> IdleTask]
  /\ runs = [t \in TaskIds |-> NoRun]

InitTables == InitRows /\ AfterScans(0)

\* calculateOverallScore is not exercised on its own
NoScoring == scoreIn = PendingResults /\ scoreOut = <<>>

\* The function is deployed and the table may hold the row of earlier scans
Init ==
  /\ InitRows
  /\ \E k \in 0..RateLimitMax : AfterScans(k)
  /\ NoScoring
  /\ budget = MaxRuns
  /\ net = DefaultNet

TaskStep(t) ==
  \/ SetProcessing(t)
  \/ SelectRateLimit(t)
  \/ RejectScan(t)
  \/ UpdateRateLimit(t)
  \/ InsertRateLimit(t)
  \/ E2EScan(t)
  \/ APIScan(t)
  \/ SecurityScan(t)
  \/ PerformanceScan(t)
  \/ AccessibilityScan(t)
  \/ TechStackScan(t)
  \/ OgImage(t)
  \/ AiAnalysis(t)
  \/ GeneratePdf(t)
  \/ FinalWrite(t)
  \/ CatchFailed(t)

Next ==
  \/ \E id \in ScanIds, url \in Urls : CreateScan(id, url)
  \/ \E t \in TaskIds, id \in ScanIds : Intake(t, id)
  \/ \E t \in TaskIds : TaskStep(t)
  \/ \E id \in ScanIds : GeneratePdfRequest(id)
  \/ Tick

\* Scans of every target run concurrently
Spec == Init /\ [][Next]_vars

\* No processScan invocation is in flight
Quiet == \A t \in TaskIds : Free(t)

\* An intake call that arrives when the previous scan has finished
IntakeSeq(t, id) == Quiet /\ Intake(t, id)

InitSeq == InitTables /\ NoScoring /\ budget = MaxRunsSeq /\ net = DefaultNet

NextSeq ==
  \/ \E id \in ScanIds, url \in Urls : CreateScan(id, url)
  \/ \E t \in TaskIds, id \in ScanIds : IntakeSeq(t, id)
  \/ \E t \in TaskIds : TaskStep(t)
  \/ Tick

\* Scans are processed strictly one at a time
SpecSeq == InitSeq /\ [][NextSeq]_vars

\* one intake call, for a domain that has not been scanned or whose window is
\* nearly or entirely used up
InitPipeline ==
  /\ InitRows
  /\ \E k \in {0, RateLimitMax - 1, RateLimitMax} : AfterScans(k)
  /\ NoScoring
  /\ budget = 1
  /\ net \in FlakyNets

NextPipeline ==
  \/ \E id \in ScanIds, url \in Urls : CreateScan(id, url)
  \/ \E t \in TaskIds, id \in ScanIds : Intake(t, id)
  \/ \E t \in TaskIds : TaskStep(t)

\* One scan, with every fetch free to fail on its own; the clock stands still
SpecPipeline == InitPipeline /\ [][NextPipeline]_vars

\* Deployments with or without a PageSpeed key, in which the API gives one of its
\* answers and the target answers every fetch or none
PageSpeedNets ==
  {[DefaultNet EXCEPT !.pagespeedKey = k, !.silent = s, !.pagespeed = ps] :
     k \in BOOLEAN, s \in BOOLEAN, ps \in PageSpeedResponses}

InitPageSpeed ==
  /\ InitRows
  /\ \E k \in {0, RateLimitMax - 1, RateLimitMax} : AfterScans(k)
  /\ NoScoring
  /\ budget = 1
  /\ net \in PageSpeedNets

\* One scan against every answer of the PageSpeed API
SpecPageSpeed == InitPageSpeed /\ [][NextPipeline]_vars

\* Deployments with or without a Groq key, in which the completion API gives
\* one of its answers
CompletionNets ==
  {[DefaultNet EXCEPT !.groqKey = k, !.completion = c] : k \in BOOLEAN, c \in AiResponses}

InitCompletion ==
  /\ InitRows
  /\ \E k \in {0, RateLimitMax - 1, RateLimitMax} : AfterScans(k)
  /\ NoScoring
  /\ budget = 1
  /\ net \in CompletionNets

\* One scan against every answer of the completion API
SpecCompletion == InitCompletion /\ [][NextPipeline]_vars

\* ------------------------------------------- calculateOverallScore on its own
\* Pages that make the analyzers produce every result they can produce, as far
\* as the result enters the score
\* k of the six security controls fail
SecurityPage(k) ==
  [PageHardened EXCEPT !.hsts = k < 1, !.xcto = k < 2, !.csp = k < 3, !.xfo = k < 4,
                       !.xss = k < 5, !.cookieScript = k >= 6]

\* c critical, h high, m medium and l low accessibility patterns are present
AccessibilityPage(c, h, m, l) ==
  [PageHardened EXCEPT !.imgNoAlt = IF c >= 1 THEN 2 ELSE 0,
                       !.emptyButtons = IF c >= 2 THEN 1 ELSE 0,
                       !.hasLang = h < 1,
                       !.inputs = IF h >= 2 THEN 5 ELSE 2,
                       !.emptyLinks = IF h >= 3 THEN 1 ELSE 0,
                       !.h1 = IF m >= 1 THEN 2 ELSE 1,
                       !.negTabindex = IF m >= 2 THEN 1 ELSE 0,
                       !.skipLink = l < 1]

\* the API reports the performance category score p (in hundredths)
PageSpeedScoring(p) == [PageSpeedGood EXCEPT !.categories.performance = p]

SecurityResults ==
  {performSecurityScan(UrlUp, r) : r \in {Timeout} \cup {Ok(SecurityPage(k)) : k \in 0..6}}

PerformanceResults ==
  {performPerformanceScan(TRUE, Ok(PageSpeedScoring(p)), Timeout) : p \in 0..100}
    \cup {performPerformanceScan(FALSE, Timeout, r) : r \in {Timeout, Ok(PageBare), Ok(PageHardened)}}

AccessibilityResults ==
  {performAccessibilityScan(r) :
     r \in {Timeout} \cup {Ok(AccessibilityPage(c, h, m, l)) :
                            c \in 0..2, h \in 0..3, m \in 0..2, l \in 0..1}}

E2EResults == {performE2EScan(r, FALSE) : r \in {Timeout, Ok(PageBare), Ok(PageHardened)}}

APIResults == {performAPIScan(r) : r \in {Timeout, Ok(PageBare)}}

InitScore ==
  /\ InitTables
  /\ budget = 0
  /\ net = DefaultNet
  /\ scoreIn \in [security : SecurityResults, performance : PerformanceResults,
                  accessibility : AccessibilityResults, e2e : E2EResults, api : APIResults]
  /\ scoreOut = <<>>

\* lines 393-394: const topIssues = extractTopIssues(scanResults);
\*                const overallScore = calculateOverallScore(scanResults)
Aggregate(scanResults) ==
  [overallScore |-> calculateOverallScore(scanResults),
   topIssues |-> extractTopIssues(scanResults)]

\* Defect: the synthetic performance issue is pushed onto the security result's
\* own issue list, which the aggregation then reads
ComputeScorePushingIntoSecurity ==
  /\ Len(scoreOut) < MaxAggregations
  /\ "pending" \notin {scoreIn[a].status : a \in DOMAIN scoreIn}
  /\ LET perf == IF scoreIn.performance.score < 50
                 THEN <<TopIssue("Performance", "high", "Poor performance score")>>
                 ELSE <<>>
         pushed == [scoreIn EXCEPT !.security.issues = @ \o perf]
     IN /\ scoreIn' = pushed
        /\ scoreOut' = Append(scoreOut,
                               [Aggregate(scoreIn) EXCEPT
                                  !.topIssues = Slice(SortIssues(
                                     FromSecurity(pushed.security.issues)
                                       \o FromAccessibility(pushed.accessibility.issues)), 10)])
  /\ UNCHANGED <<now, scan_results, rate_limits, tasks, runs, admissions, budget, net>>

\* The aggregation is applied to the analyzer results: both functions build their
\* value in locals (issues, totalScore, totalWeight) and assign to nothing they
\* are handed
ComputeScore ==
  /\ Len(scoreOut) < MaxAggregations
  /\ "pending" \notin {scoreIn[a].status : a \in DOMAIN scoreIn}
  /\ scoreOut' = Append(scoreOut, Aggregate(scoreIn))
  /\ scoreIn' = scoreIn
  /\ UNCHANGED <<now, scan_results, rate_limits, tasks, runs, admissions, budget, net>>

NextScore == ComputeScore

\* The aggregation applied, and applied again, to every analyzer result set
SpecScore == InitScore /\ [][NextScore]_vars

\* ------------------------------------ the header and markup analyzers on their own
\* Pages with every combination of the header controls and of the markup
\* patterns that the two analyzers look for
AnalyzePages ==
  {[PageHardened EXCEPT !.hsts = s[1], !.xcto = s[2], !.xfo = s[3], !.csp = s[4],
                        !.xss = s[5], !.cookieScript = s[6],
                        !.hasLang = b[1], !.skipLink = b[2],
                        !.imgNoAlt = IF b[3] THEN 3 ELSE 0,
                        !.emptyButtons = IF b[4] THEN 1 ELSE 0,
                        !.inputs = IF b[5] THEN 5 ELSE 2,
                        !.emptyLinks = IF b[6] THEN 1 ELSE 0,
                        !.negTabindex = IF b[7] THEN 2 ELSE 0,
                        !.h1 = h] :
     s \in [1..6 -> BOOLEAN], b \in [1..7 -> BOOLEAN], h \in 0..2}

InitAnalyze ==
  /\ InitTables
  /\ NoScoring
  /\ budget = 0
  /\ net \in {[DefaultNet EXCEPT !.site = p] : p \in AnalyzePages}

\* lines 1654-1659: results.security = await performSecurityScan(url)
AnalyzeSecurity ==
  /\ scoreIn.security.status = "pending"
  /\ \E resp \in FetchOutcomes(UrlUp) :
       scoreIn' = [scoreIn EXCEPT !.security = performSecurityScan(UrlUp, resp)]
  /\ UNCHANGED <<now, scan_results, rate_limits, tasks, runs, admissions, budget, net, scoreOut>>

\* lines 1668-1673: results.accessibility = await performAccessibilityScan(url)
AnalyzeAccessibility ==
  /\ scoreIn.accessibility.status = "pending"
  /\ \E resp \in FetchOutcomes(UrlUp) :
       scoreIn' = [scoreIn EXCEPT !.accessibility = performAccessibilityScan(resp)]
  /\ UNCHANGED <<now, scan_results, rate_limits, tasks, runs, admissions, budget, net, scoreOut>>

NextAnalyze == AnalyzeSecurity \/ AnalyzeAccessibility

\* The security and the accessibility analyzer applied to every such page
SpecAnalyze == InitAnalyze /\ [][NextAnalyze]_vars

\* ---------------------------- the interactive-elements and API analyzers alone
\* Pages with every sequence of buttons, labelled or not, and every sequence of
\* paths handed to fetch(...), root-relative or not, repeated or not
ElementPages ==
  {[PageBare EXCEPT !.buttons = b, !.apiPaths = p] :
     b \in UNION {[1..n -> {"", "Buy"}] : n \in 0..MaxButtons},
     p \in UNION {[1..n -> {"/api/a", "/api/b", "https://cdn.example/x"}] : n \in 0..MaxPaths}}

InitElements ==
  /\ InitTables
  /\ NoScoring
  /\ budget = 0
  /\ net \in {[DefaultNet EXCEPT !.site = p, !.domParser = d] :
                p \in ElementPages, d \in BOOLEAN}

\* lines 1640-1645: results.e2e = await performE2EScan(url)
AnalyzeE2E ==
  /\ scoreIn.e2e.status = "pending"
  /\ \E resp \in FetchOutcomes(UrlUp) :
       scoreIn' = [scoreIn EXCEPT !.e2e = performE2EScan(resp, net.domParser)]
  /\ UNCHANGED <<now, scan_results, rate_limits, tasks, runs, admissions, budget, net, scoreOut>>

\* lines 1647-1652: results.api = await performAPIScan(url)
AnalyzeAPI ==
  /\ scoreIn.api.status = "pending"
  /\ \E resp \in FetchOutcomes(UrlUp) :
       scoreIn' = [scoreIn EXCEPT !.api = performAPIScan(resp)]
  /\ UNCHANGED <<now, scan_results, rate_limits, tasks, runs, admissions, budget, net, scoreOut>>

NextElements == AnalyzeE2E \/ AnalyzeAPI

\* The interactive-elements and the API analyzer applied to every such page
SpecElements == InitElements /\ [][NextElements]_vars

\* ===================================================================== claims
Analyzers == {"e2e", "api", "security", "performance", "accessibility", "techStack"}

\* where a scan status stands on the path pending -> processing -> {completed, failed}
StatusRank(status) ==
  CASE status = "none" -> 0 [] status = "pending" -> 1 [] status = "processing" -> 2
    [] status \in {"completed", "failed"} -> 3

Terminal(status) == status \in {"completed", "failed"}

\* C1: in every step, the persisted status of every scan stays where it is or moves
\* forward along pending -> processing -> {completed, failed}, and a status that
\* is completed or failed does not change.
C1_StatusOnlyMovesForward ==
  [][\A id \in ScanIds :
       LET before == scan_results[id].scan_status
           after == scan_results'[id].scan_status
       IN /\ StatusRank(before) <= StatusRank(after)
          /\ Terminal(before) => after = before]_vars

\* the admissions of domain d, up to the i-th, that fall in the 60 minutes ending with the i-th
InHourBefore(d, i) ==
  {j \in 1..i : admissions[d][j] > admissions[d][i] - WindowMinutes}

\* C2: with scans processed one at a time, every 60-minute interval holds at most
\* 5 admissions of a domain.
C2_AtMostFivePerHour ==
  \A d \in Domains : \A i \in 1..Len(admissions[d]) :
    Cardinality(InHourBefore(d, i)) <= RateLimitMax

\* the first window of domain d is open: no admission yet, or the first one is
\* less than 60 minutes old
InFirstWindow(d) == admissions[d] = <<>> \/ now < admissions[d][1] + WindowMinutes

\* the gate of the invocation t decides in this step
GateDecides(t) == At(t, "selectRateLimit") /\ tasks'[t].pc # "selectRateLimit"

\* the invocation t passes the gate in this step
Admitted(t) ==
  /\ tasks[t].pc \in {"insertRateLimit", "updateRateLimit"}
  /\ tasks'[t].pc = "e2e"

\* C3: with scans processed one at a time and the first window of the domain
\* open, the gate lets the 1st to 5th scan pass -- the first by creating the
\* window with count 1, each later one by raising the count by one, so that the
\* stored count is the number of scans admitted -- and rejects the 6th.
C3_FiveAdmittedSixthRejected ==
  [][\A t \in TaskIds :
       /\ GateDecides(t) =>
            LET d == Hostname(tasks[t].url)
                n == Len(admissions[d])
            IN InFirstWindow(d) =>
                 /\ n = 0 =>
                      /\ tasks'[t].pc = "insertRateLimit"
                      /\ tasks'[t].write.scan_count = 1
                      /\ tasks'[t].write.window_start = now
                 /\ n \in 1..(RateLimitMax - 1) =>
                      /\ tasks'[t].pc = "updateRateLimit"
                      /\ tasks'[t].write.scan_count = n + 1
                 /\ n >= RateLimitMax => tasks'[t].pc = "rejected"
       /\ Admitted(t) =>
            LET d == Hostname(tasks[t].url)
                a == admissions'[d]
            IN a[Len(a)] < a[1] + WindowMinutes =>
                 /\ Len(a) <= RateLimitMax
                 /\ \E r \in rate_limits' :
                      /\ {x \in rate_limits' : x.domain = d} = {r}
                      /\ r.scan_count = Len(a)
                      /\ r.window_start = a[1]]_vars

\* C3, witness: the 6th scan of the open first window has been rejected
C3_Witness ==
  \E t \in TaskIds :
    /\ At(t, "rejected")
    /\ Len(admissions[Hostname(tasks[t].url)]) = RateLimitMax
    /\ InFirstWindow(Hostname(tasks[t].url))

\* C4: a scan that the gate lets pass when the window of its domain has elapsed
\* leaves the row of the domain with count 1 and with the time of this
\* admission as window_start.
C4_ElapsedWindowIsReset ==
  [][\A t \in TaskIds :
       Admitted(t) =>
         LET d == Hostname(tasks[t].url)
             at == tasks[t].write.last_scan_at
         IN \A r \in RowsOf(d) :
              r.window_start <= at - WindowMinutes =>
                \E q \in rate_limits' :
                  /\ q.domain = d
                  /\ q.scan_count = 1
                  /\ q.window_start = at]_vars

\* the admissions of domain d that fall into the window starting at start
InWindow(d, start) ==
  {i \in 1..Len(admissions[d]) :
     admissions[d][i] >= start /\ admissions[d][i] < start + WindowMinutes}

\* C5: with concurrent scans of a domain, at most 5 scans are admitted in the
\* window of its row, the domain has a single row, and while the window is open
\* the stored count is the number of scans admitted in it.
C5_AdmissionIsAtomic ==
  \A d \in Domains :
    /\ Cardinality(RowsOf(d)) <= 1
    /\ RowsOf(d) = {} => admissions[d] = <<>>
    /\ \A r \in RowsOf(d) :
         now < r.window_start + WindowMinutes =>
           /\ Cardinality(InWindow(d, r.window_start)) <= RateLimitMax
           /\ r.scan_count = Cardinality(InWindow(d, r.window_start))

\* an intake call for processScan invocation t is answered in this step
Answered(t) == Free(t) /\ ~Free(t)'

C7_RejectedScanSkipsAnalyzers ==
  \A t \in TaskIds :
    runs[t].outcome = "rejected" =>
      /\ runs[t].writes = <<"processing", "failed">>
      /\ runs[t].invoked = {}
      /\ At(t, "done")
      /\ scan_results[tasks[t].scanId].scan_status = "failed"

\* C7, witness: a scan has been rejected by the gate
C7_Witness == \E t \in TaskIds : runs[t].outcome = "rejected"

NumberMetrics ==
  {"buttons_found", "links_found", "forms_found", "endpoints_detected", "checks_performed",
   "checks_passed", "score", "load_time_ms", "total_issues", "total_detected"}

ListMetrics == {"primary_actions", "endpoints", "issues", "detected"}

\* a failed section: an error and nothing but zero-valued metrics
FailedWithZeroMetrics(r) ==
  /\ "error" \in DOMAIN r /\ r.error \notin {Null, ""}
  /\ DOMAIN r \cap (NumberMetrics \cup ListMetrics) # {}
  /\ DOMAIN r \subseteq
       NumberMetrics \cup ListMetrics \cup {"status", "error", "https_enabled", "wcag_level"}
  /\ \A k \in DOMAIN r \cap NumberMetrics : r[k] = 0
  /\ \A k \in DOMAIN r \cap ListMetrics : r[k] = <<>>

\* positions of processScan after the aggregation
AfterAggregation == {"ogImage", "ai", "pdf", "finalWrite"}

FailedSections(results) == {a \in Analyzers : results[a].status = "failed"}

\* C8: whichever analyzers fail, once performScan has returned all six analyzers
\* have been invoked and have reported completed or failed, every failed one
\* with an error and zero-valued metrics, and the aggregation has run; a run
\* ends in the catch of processScan only through the TypeError of an invalid
\* URL, thrown before any analyzer is invoked, or through a refused final update.
C8_AnalyzerFailureNeverAborts ==
  \A t \in TaskIds :
    /\ tasks[t].pc \in AfterAggregation =>
         /\ Analyzers \cup {"aggregate"} \subseteq runs[t].invoked
         /\ {"topIssues", "overallScore"} \subseteq DOMAIN tasks[t]
         /\ \A a \in Analyzers :
              /\ tasks[t].scanResults[a].status \in {"completed", "failed"}
              /\ tasks[t].scanResults[a].status = "failed"
                   => FailedWithZeroMetrics(tasks[t].scanResults[a])
    /\ tasks[t].pc \in Analyzers =>
         \A a \in Analyzers :
           tasks[t].scanResults[a].status = "failed"
             => FailedWithZeroMetrics(tasks[t].scanResults[a])
    /\ runs[t].outcome = "failed" =>
         /\ runs[t].thrown \in {"TypeError", "updateError"}
         /\ runs[t].thrown = "TypeError" => runs[t].invoked = {}

\* C8, witness: the aggregation has run on results in which every second
\* analyzer failed
C8_Witness ==
  \E t \in TaskIds :
    /\ At(t, "finalWrite")
    /\ FailedSections(tasks[t].scanResults) = {"e2e", "security", "accessibility"}

PersistedSections ==
  {"e2e_results", "api_results", "security_results", "performance_results",
   "accessibility_results", "tech_stack"}

\* C9: a scan whose results are persisted and in which no analyzer completed has
\* overall_score 0 and the status failed.
C9_NoAnalyzerCompletedMeansFailed ==
  \A id \in ScanIds :
    LET row == scan_results[id]
    IN "overall_score" \in DOMAIN row =>
         ((\A c \in PersistedSections : row[c].status # "completed")
            => row.overall_score = 0 /\ row.scan_status = "failed")

Weighted == {"security", "performance", "accessibility", "e2e", "api"}

Completed(results) == {a \in Weighted : results[a].status = "completed"}

Weight(a) ==
  CASE a = "security" -> WSecurity [] a = "performance" -> WPerformance
    [] a = "accessibility" -> WAccessibility [] a = "e2e" -> WE2E [] a = "api" -> WApi

\* the score of a completed analyzer, times ChecksPerformed (the security score is
\* checks_passed / checks_performed * 100)
ScoreTimesChecks(results, a) ==
  CASE a = "security" ->
         (results.security.checks_passed * 100 * ChecksPerformed)
           \div results.security.checks_performed
    [] a = "performance" -> results.performance.score * ChecksPerformed
    [] a = "accessibility" -> results.accessibility.score * ChecksPerformed
    [] a = "e2e" -> (IF results.e2e.buttons_found > 0 THEN 80 ELSE 50) * ChecksPerformed
    [] a = "api" -> 70 * ChecksPerformed

RECURSIVE SumOver(_, _)
SumOver(f, S) ==
  IF S = {} THEN 0 ELSE LET a == CHOOSE x \in S : TRUE IN f[a] + SumOver(f, S \ {a})

\* C10: with at least one weighted analyzer completed, the value returned by
\* calculateOverallScore is an integer from 0 to 100 and is the quotient of the
\* sum of score x weight by the sum of the weights, both over the completed
\* analyzers, rounded to the nearest integer (a half rounds up).
C10_ScoreIsRoundedWeightedMean ==
  (scoreOut # <<>> /\ Completed(scoreIn) # {}) =>
    LET done == Completed(scoreIn)
        num == SumOver([a \in done |-> ScoreTimesChecks(scoreIn, a) * Weight(a)], done)
        den == ChecksPerformed * SumOver([a \in done |-> Weight(a)], done)
        r == scoreOut[1].overallScore
    IN /\ r \in 0..100
       /\ (2 * r - 1) * den <= 2 * num
       /\ 2 * num < (2 * r + 1) * den

\* C10, witness: a score has been computed from results in which security and
\* the API analyzer failed and the others completed, and it is neither 0 nor 100
C10_Witness ==
  /\ scoreOut # <<>>
  /\ Completed(scoreIn) = {"performance", "accessibility", "e2e"}
  /\ scoreOut[1].overallScore \in 1..99

\* ------------------------------------------------------------------------ C11
\* The issues of a result set in source order: security, accessibility, then the
\* synthetic performance issue
IssuesInSourceOrder(scanResults) ==
  FromSecurity(scanResults.security.issues)
    \o FromAccessibility(scanResults.accessibility.issues)
    \o (IF scanResults.performance.score < 50
        THEN <<TopIssue("Performance", "high", "Poor performance score")>>
        ELSE <<>>)

OfSeverity(issues, sev) == SelectSeq(issues, LAMBDA i : i.severity = sev)

\* critical first, then high, medium, low; equal severities keep their order
BySeverity(issues) ==
  OfSeverity(issues, "critical") \o OfSeverity(issues, "high")
    \o OfSeverity(issues, "medium") \o OfSeverity(issues, "low")

\* C11: the top issues of an aggregation are the first 10 of the issues of the
\* result set ordered critical, high, medium, low, equal severities in source
\* order; so what the cap drops is no more severe than what it keeps.
C11_TopIssuesCriticalFirst ==
  \A i \in 1..Len(scoreOut) :
    /\ Len(scoreOut[i].topIssues) <= 10
    /\ scoreOut[i].topIssues = Slice(BySeverity(IssuesInSourceOrder(scoreIn)), 10)

Column(a) ==
  CASE a = "e2e" -> "e2e_results" [] a = "api" -> "api_results"
    [] a = "security" -> "security_results" [] a = "performance" -> "performance_results"
    [] a = "accessibility" -> "accessibility_results" [] a = "techStack" -> "tech_stack"

ResultsPresent(row) ==
  /\ {"overall_score", "top_issues"} \cup PersistedSections \subseteq DOMAIN row
  /\ \A c \in PersistedSections : row[c].status \in {"completed", "failed"}

\* C13: a row is never completed without overall_score, top_issues and the six
\* analyzer payloads, none of them pending; and the step that makes a row
\* completed is the final update of one invocation, sent after all six
\* analyzers reported completed or failed, which in that same update stores
\* the invocation's score, top issues and six payloads.
C13_CompletedInOneWrite ==
  [][\A id \in ScanIds :
       LET row == scan_results'[id]
       IN /\ row.scan_status = "completed" => ResultsPresent(row)
          /\ (scan_results[id].scan_status # "completed" /\ row.scan_status = "completed") =>
               \E t \in TaskIds :
                 /\ tasks[t].pc = "finalWrite" /\ tasks[t].scanId = id
                 /\ Analyzers \subseteq runs[t].invoked
                 /\ \A a \in Analyzers :
                      /\ tasks[t].scanResults[a].status \in {"completed", "failed"}
                      /\ row[Column(a)] = tasks[t].scanResults[a]
                 /\ row.overall_score = tasks[t].overallScore
                 /\ row.top_issues = tasks[t].topIssues
                 /\ runs'[t].writes = <<"processing", "completed">>]_vars

\* a scan has been completed with analyzers of both outcomes
C13_Witness ==
  \E id \in ScanIds :
    /\ scan_results[id].scan_status = "completed"
    /\ scan_results[id].security_results.status = "completed"
    /\ scan_results[id].e2e_results.status = "failed"
    /\ scan_results[id].overall_score > 0
    /\ scan_results[id].top_issues # <<>>

\* ------------------------------------------------------------------------ C14
ResultColumns == {"overall_score", "top_issues"} \cup PersistedSections

\* C14: an invocation in which an exception was thrown after the write of
\* processing (the TypeError of an invalid URL, the error of a refused final
\* update) is in the catch or has ended there; the step of the catch changes
\* the status of the row to failed and nothing else, the row then holds no
\* overall_score, no top_issues and no analyzer payload, and the invocation
\* has ended as failed.
C14_EscapedExceptionMeansFailed ==
  [][\A t \in TaskIds :
       /\ runs'[t].thrown # "none" =>
            /\ runs'[t].writes[1] = "processing"
            /\ tasks'[t].pc \in {"catch", "done"}
            /\ tasks'[t].pc = "done" => runs'[t].outcome = "failed"
       /\ (tasks[t].pc = "catch" /\ tasks'[t].pc # "catch") =>
            LET id == tasks[t].scanId
            IN /\ scan_results'[id] = [scan_results[id] EXCEPT !.scan_status = "failed"]
               /\ DOMAIN scan_results'[id] \cap ResultColumns = {}
               /\ runs'[t].outcome = "failed"
               /\ runs'[t].writes = <<"processing", "failed">>]_vars

\* the final update of a scan was refused after the aggregation had computed a
\* score, and the scan has ended failed
C14_Witness ==
  \E t \in TaskIds :
    /\ runs[t].thrown = "updateError"
    /\ runs[t].outcome = "failed"
    /\ "aggregate" \in runs[t].invoked
    /\ scan_results[tasks[t].scanId].scan_status = "failed"

\* ------------------------------------------------------------------------ C15
HasReport(row) == "pdf_report" \in DOMAIN row /\ ~row.pdf_report.null

\* C15: the step that ends the report generation always leads to the final
\* update, with the score, the top issues and the analyzer results of the
\* invocation as they were, whether the generation threw or not; and when it
\* threw, the applied final update leaves the scan completed with that score,
\* those top issues and the six payloads, and with no report.
C15_ReportFailureIsNotFatal ==
  [][\A t \in TaskIds :
       /\ (tasks[t].pc = "pdf" /\ tasks'[t].pc # "pdf") =>
            /\ tasks'[t].pc = "finalWrite"
            /\ runs'[t].thrown = "none"
            /\ \A k \in DOMAIN tasks[t] \ {"pc"} : tasks'[t][k] = tasks[t][k]
       /\ (tasks[t].pc = "finalWrite" /\ tasks[t].pdfBase64.null /\ tasks'[t].pc = "done") =>
            LET row == scan_results'[tasks[t].scanId]
            IN /\ row.scan_status = "completed"
               /\ ResultsPresent(row)
               /\ row.overall_score = tasks[t].overallScore
               /\ row.top_issues = tasks[t].topIssues
               /\ \A a \in Analyzers : row[Column(a)] = tasks[t].scanResults[a]
               /\ ~HasReport(row)]_vars

\* the report generation threw and the scan is completed, with a score and
\* without a report
C15_Witness ==
  \E id \in ScanIds :
    /\ scan_results[id].scan_status = "completed"
    /\ "pdf_report" \in DOMAIN scan_results[id]
    /\ scan_results[id].pdf_report.null
    /\ scan_results[id].overall_score > 0

\* ------------------------------------------------------------------------ C16
\* C16: a report is stored only in the row of a completed scan, and a stored
\* report is never replaced: once a row holds a report, every later step leaves
\* that report as it is.
C16_ReportWrittenOnceWhenCompleted ==
  [][\A id \in ScanIds :
       LET old == scan_results[id]
           new == scan_results'[id]
       IN /\ HasReport(old) => HasReport(new) /\ new.pdf_report = old.pdf_report
          /\ (~HasReport(old) /\ HasReport(new)) => new.scan_status = "completed"]_vars

\* ------------------------------------------------------------------------ C17
\* C17: an invocation of processScan that has started and has not returned
\* always has a next step: every call it waits for returns or throws, so the
\* scan goes on to completed or failed.
C17_NoStepWaitsForever ==
  \A t \in TaskIds : tasks[t].pc \notin {"idle", "done"} => ENABLED TaskStep(t)

\* ------------------------------------------------------------------------ C18
Controls == {"hsts", "contentTypeOptions", "frameProtection", "csp", "xssProtection", "cookieScript"}

\* a control fails: its header is missing (frame protection: neither
\* X-Frame-Options nor a CSP is sent), or the script is present
ControlFails(page, c) ==
  CASE c = "hsts" -> ~page.hsts
    [] c = "contentTypeOptions" -> ~page.xcto
    [] c = "frameProtection" -> ~page.xfo /\ ~page.csp
    [] c = "csp" -> ~page.csp
    [] c = "xssProtection" -> ~page.xss
    [] c = "cookieScript" -> page.cookieScript

\* C18: a completed security result has checks_performed 7, checks_passed 7
\* minus the number of its issues, and as many issues as controls fail; for a
\* page without any of the five headers and without a cookie script that is 5
\* issues and checks_passed 2.
C18_SecurityChecksCounted ==
  scoreIn.security.status = "completed" =>
    LET r == scoreIn.security
        failed == {c \in Controls : ControlFails(net.site, c)}
    IN /\ r.checks_performed = 7
       /\ r.checks_passed = 7 - Len(r.issues)
       /\ Len(r.issues) = Cardinality(failed)
       /\ failed = Controls \ {"cookieScript"} => Len(r.issues) = 5 /\ r.checks_passed = 2

\* the analyzer has completed for a page that sends none of the five headers
\* and contains no cookie script
C18_Witness ==
  /\ scoreIn.security.status = "completed"
  /\ {c \in Controls : ControlFails(net.site, c)} = Controls \ {"cookieScript"}

\* ------------------------------------------------------------------------ C19
Patterns ==
  {"imgAlt", "lang", "emptyButton", "inputLabels", "noH1", "severalH1", "emptyLink",
   "skipLink", "negativeTabindex"}

PatternDetected(page, p) ==
  CASE p = "imgAlt" -> page.imgNoAlt > 0
    [] p = "lang" -> ~page.hasLang
    [] p = "emptyButton" -> page.emptyButtons > 0
    [] p = "inputLabels" -> page.inputs > page.labels + 2
    [] p = "noH1" -> page.h1 = 0 /\ page.headings > 0
    [] p = "severalH1" -> page.h1 > 1
    [] p = "emptyLink" -> page.emptyLinks > 0
    [] p = "skipLink" -> ~page.skipLink
    [] p = "negativeTabindex" -> page.negTabindex > 0

PatternSeverity(p) ==
  CASE p \in {"imgAlt", "emptyButton"} -> "critical"
    [] p \in {"lang", "inputLabels", "emptyLink"} -> "high"
    [] p \in {"noH1", "severalH1", "negativeTabindex"} -> "medium"
    [] p = "skipLink" -> "low"

\* C19: a completed accessibility result has, for every severity, as many
\* issues as patterns of that severity are detected in the page, and no others;
\* for a page in which the detected patterns are images without alt (3 of them)
\* and a missing lang, the issues are one critical issue with count 3 and one
\* high issue, and wcag_level is "Fails Level A".
C19_OneIssuePerPattern ==
  scoreIn.accessibility.status = "completed" =>
    LET r == scoreIn.accessibility
        detected == {p \in Patterns : PatternDetected(net.site, p)}
    IN /\ Len(r.issues) = Cardinality(detected)
       /\ r.total_issues = Cardinality(detected)
       /\ \A sev \in {"critical", "high", "medium", "low"} :
            Cardinality({i \in 1..Len(r.issues) : r.issues[i].severity = sev})
              = Cardinality({p \in detected : PatternSeverity(p) = sev})
       /\ (detected = {"imgAlt", "lang"} /\ net.site.imgNoAlt = 3) =>
            /\ r.issues = <<[severity |-> "critical", count |-> 3,
                             message |-> "images missing alt text"],
                            [severity |-> "high", message |-> "Missing lang attribute"]>>
            /\ r.wcag_level = "Fails Level A"

\* the analyzer has completed for a page whose detected patterns are 3 images
\* without alt and the missing lang
C19_Witness ==
  /\ scoreIn.accessibility.status = "completed"
  /\ {p \in Patterns : PatternDetected(net.site, p)} = {"imgAlt", "lang"}
  /\ net.site.imgNoAlt = 3

\* ------------------------------------------------------------------------ C20
\* No analyzer other than performance has produced data and there is no AI
\* analysis: the scan has its URL and its overall score only
NoOptionalData(task) ==
  /\ \A a \in Analyzers \ {"performance"} : task.scanResults[a].status = "failed"
  /\ task.aiSummary = Null
  /\ task.aiRecommendations = <<>>

\* C20: the report of a scan that has its URL and overall score only has
\* exactly 1 page; the report of such a scan to which Core Web Vitals are
\* added has exactly 1 page more, a Core Web Vitals page that lists 6 metrics.
C20_SummaryOnlyReportHasOnePage ==
  \A t \in TaskIds :
    (At(t, "finalWrite") /\ ~tasks[t].pdfBase64.null /\ NoOptionalData(tasks[t])) =>
      LET pages == tasks[t].pdfBase64.pages
          perf == tasks[t].scanResults.performance
      IN /\ perf.status = "failed" => Len(pages) = 1
         /\ "core_web_vitals" \in DOMAIN perf =>
              /\ Len(pages) = 2
              /\ pages[2].title = "Core Web Vitals"
              /\ Len(pages[2].items) = 6

\* ---------------------------------------------------------------- claim C21
\* The call of the scoring service succeeded: a key is configured, the API
\* answered, with an OK status and a lighthouseResult
PageSpeedSucceeded ==
  /\ net.pagespeedKey
  /\ ~net.silent
  /\ net.pagespeed.kind = "ok"
  /\ net.pagespeed.page.httpOk
  /\ "categories" \in DOMAIN net.pagespeed.page

PerformanceOf(t) == tasks[t].scanResults.performance

Measured(t) ==
  /\ "scanResults" \in DOMAIN tasks[t]
  /\ PerformanceOf(t).status # "pending"

HasVitals(t) == "core_web_vitals" \in DOMAIN PerformanceOf(t)

IsBasicResult(r) ==
  /\ r.status = "completed"
  /\ "core_web_vitals" \notin DOMAIN r
  /\ r.source = "basic-scan"

Reported(t) == "pdfBase64" \in DOMAIN tasks[t] /\ ~tasks[t].pdfBase64.null

HasVitalsPage(t) ==
  \E i \in DOMAIN tasks[t].pdfBase64.pages :
    tasks[t].pdfBase64.pages[i].title = "Core Web Vitals"

\* C21 as stated: the Performance result carries Core Web Vitals exactly when
\* the scoring service was configured and its call succeeded; otherwise it is
\* the basic heuristic result, with status completed, and the report has no
\* Core Web Vitals page.
C21_FallbackAlwaysCompleted ==
  \A t \in TaskIds :
    /\ Measured(t) => (HasVitals(t) <=> PageSpeedSucceeded)
    /\ Measured(t) /\ ~PageSpeedSucceeded => IsBasicResult(PerformanceOf(t))
    /\ Reported(t) /\ ~PageSpeedSucceeded => ~HasVitalsPage(t)

\* C21 (amended): the Performance result carries Core Web Vitals exactly when
\* the scoring service was configured and its call succeeded; otherwise it is
\* what the basic scan gives: the basic heuristic result (status completed, no
\* Core Web Vitals) when the target answers the basic scan's fetch, and a failed
\* result when that fetch throws; the report has a Core Web Vitals page exactly
\* when the result carries Core Web Vitals.
C21_VitalsOnlyFromScoringService ==
  \A t \in TaskIds :
    /\ Measured(t) => (HasVitals(t) <=> PageSpeedSucceeded)
    /\ Measured(t) /\ ~PageSpeedSucceeded =>
         IF net.silent THEN PerformanceOf(t).status = "failed"
         ELSE IsBasicResult(PerformanceOf(t))
    /\ Reported(t) => (HasVitalsPage(t) <=> PageSpeedSucceeded)

\* a key is configured, the API answers with a non-OK status, and the report of
\* the basic result has been generated
C21_Witness ==
  \E t \in TaskIds :
    /\ net.pagespeedKey /\ net.pagespeed = Ok(PageSpeedRefused)
    /\ Reported(t)
    /\ IsBasicResult(PerformanceOf(t))
    /\ ~HasVitalsPage(t)

\* ---------------------------------------------------------------- claim C22
\* the completion service is absent, errors or returns no content
NoCompletion ==
  \/ ~net.groqKey
  \/ net.completion.kind # "ok"
  \/ ~net.completion.page.httpOk
  \/ net.completion.page.content = ""

\* C22: the step of the narrative analysis leaves every row as it is and leads to
\* the report generation with no exception on its way to the catch; its result
\* is summary null with no recommendations when the completion service is
\* absent, errors or returns no content, the raw text with no recommendations
\* when the text does not parse, and the parsed summary (null when the parsed
\* object has none) and recommendations otherwise. With every other peer
\* answering, the scan is then completed with that summary and those
\* recommendations.
C22_NarrativeDegradesGracefully ==
  [][\A t \in TaskIds :
       /\ (tasks[t].pc = "ai" /\ tasks'[t].pc # "ai") =>
            LET summary == tasks'[t].aiSummary
                recs == tasks'[t].aiRecommendations
            IN /\ scan_results' = scan_results
               /\ tasks'[t].pc = "pdf"
               /\ runs'[t].thrown = "none"
               /\ IF NoCompletion THEN summary = Null /\ recs = <<>>
                  ELSE IF net.completion.page.parsed = <<>>
                       THEN summary = net.completion.page.content /\ recs = <<>>
                  ELSE /\ summary = (IF net.completion.page.parsed[1].summary = ""
                                      THEN Null ELSE net.completion.page.parsed[1].summary)
                       /\ recs = net.completion.page.parsed[1].recommendations
       /\ (tasks[t].pc = "finalWrite" /\ tasks'[t].pc # "finalWrite") =>
            LET row == scan_results'[tasks[t].scanId]
            IN /\ row.scan_status = "completed"
               /\ row.ai_summary = tasks[t].aiSummary
               /\ row.ai_recommendations = tasks[t].aiRecommendations]_vars

\* a scan is completed with the raw text of the completion as its summary
C22_Witness ==
  \E id \in ScanIds :
    /\ net.groqKey /\ net.completion = Ok(AiText)
    /\ scan_results[id].scan_status = "completed"
    /\ scan_results[id].ai_summary = AiText.content
    /\ scan_results[id].ai_recommendations = <<>>

\* ---------------------------------------------------------------- claim C23
\* the insert that invocation t has sent is refused: the domain has a row
InsertRefused(t) ==
  /\ tasks[t].pc = "insertRateLimit"
  /\ \E r \in rate_limits : r.domain = tasks[t].write.domain

\* C23: when a write of processScan is answered with an error (the rate-limit
\* insert refused for a domain that already has a row, the final update
\* refused), the invocation goes to its catch, which sets the scan to failed:
\* it does not go on as if the write had been applied.
C23_RefusedWriteFailsScan ==
  [][\A t \in TaskIds :
       /\ (InsertRefused(t) /\ tasks'[t].pc # "insertRateLimit") => tasks'[t].pc = "catch"
       /\ (tasks[t].pc = "finalWrite" /\ tasks'[t].pc # "finalWrite"
              /\ scan_results'[tasks[t].scanId].scan_status # "completed") =>
            tasks'[t].pc = "catch"]_vars

\* ---------------------------------------------------------------- claim C24
\* C24: every page of a generated report, the first included, has the header
\* block with the page's own number (the i-th page is numbered i) and the
\* footer block.
C24_EveryPageHasHeaderAndFooter ==
  \A t \in TaskIds :
    Reported(t) =>
      \A i \in DOMAIN tasks[t].pdfBase64.pages :
        LET page == tasks[t].pdfBase64.pages[i]
        IN page.header /\ page.footer /\ page.number = <<i>>

\* ---------------------------------------------------------------- claim C25
PageTitled(t, title) ==
  LET pages == tasks[t].pdfBase64.pages
  IN pages[CHOOSE i \in DOMAIN pages : pages[i].title = title]

HasPageTitled(t, title) ==
  \E i \in DOMAIN tasks[t].pdfBase64.pages : tasks[t].pdfBase64.pages[i].title = title

C26_EndpointsDistinctAndCapped ==
  scoreIn.api.status = "completed" =>
    LET endpoints == scoreIn.api.endpoints
    IN /\ Len(endpoints) <= 10
       /\ \A i, j \in DOMAIN endpoints :
            endpoints[i].path = endpoints[j].path => i = j

\* ---------------------------------------------------------------- claim C27
\* C27: without a DOMParser the completed interactive-elements result has the
\* button count and the primary actions of the structural strategy: the number
\* of buttons of the page and its first 5 non-empty button labels, in document
\* order.
C27_RegexFallbackEqualsDom ==
  (~net.domParser /\ scoreIn.e2e.status = "completed") =>
    /\ scoreIn.e2e.buttons_found = Len(net.site.buttons)
    /\ scoreIn.e2e.primary_actions = Slice(SelectSeq(net.site.buttons, NonEmpty), 5)
    /\ scoreIn.e2e = performE2EScan(Site(UrlUp), TRUE)

\* ---------------------------------------------------------------- claim C28
\* the analyzer an issue of the given category is derived from
AnalyzerOf(category) ==
  CASE category = "Security" -> "security"
    [] category = "Accessibility" -> "accessibility"
    [] category = "Performance" -> "performance"

\* C28: no top issue of a scan is derived from an analyzer that failed; in
\* particular the poor-performance issue is absent when the performance
\* analyzer failed.
C28_NoIssueFromFailedAnalyzer ==
  \A t \in TaskIds :
    "topIssues" \in DOMAIN tasks[t] =>
      \A i \in DOMAIN tasks[t].topIssues :
        tasks[t].scanResults[AnalyzerOf(tasks[t].topIssues[i].category)].status # "failed"

\* ---------------------------------------------------------------- claim C29
\* C29: in the row of a completed scan the columns security_checks_passed and
\* security_checks_total equal checks_passed and checks_performed of the stored
\* security result, whether the security analyzer completed or failed.
C29_SecurityColumnsMatchResult ==
  \A id \in ScanIds :
    scan_results[id].scan_status = "completed" =>
      /\ scan_results[id].security_checks_passed = scan_results[id].security_results.checks_passed
      /\ scan_results[id].security_checks_total =
           scan_results[id].security_results.checks_performed

\* ---------------------------------------------------------------- claim C30
\* C30: the step in which the gate rejects a scan writes nothing, and the step
\* that ends the rejected invocation leaves every rate-limit row as it is
\* (scan_count, window_start and last_scan_at included) and changes nothing in
\* the scan rows but the status of its scan, to failed.
C30_RejectionWritesOnlyFailed ==
  [][\A t \in TaskIds :
       /\ (tasks[t].pc = "selectRateLimit" /\ tasks'[t].pc = "rejected") =>
            rate_limits' = rate_limits /\ scan_results' = scan_results
       /\ (tasks[t].pc = "rejected" /\ tasks'[t].pc # "rejected") =>
            /\ rate_limits' = rate_limits
            /\ scan_results' =
                 [scan_results EXCEPT ![tasks[t].scanId].scan_status = "failed"]
            /\ runs'[t].writes = Append(runs[t].writes, "failed")]_vars

\* a scan has been rejected later than the last admission of its domain, whose
\* row still has the count and the date of that admission
C30_Witness ==
  \E t \in TaskIds :
    /\ tasks[t].pc = "done"
    /\ runs[t].outcome = "rejected"
    /\ \E r \in rate_limits :
         /\ r.domain = Hostname(tasks[t].url)
         /\ r.scan_count = RateLimitMax
         /\ r.last_scan_at < now

====
